---- MODULE Spec2Model ----
(***************************************************************************)
(* Model of the cross-store conversation search of cursor-chat-browser:    *)
(* the GET handler of src/app/api/search/route.ts with its helpers.        *)
(*                                                                         *)
(* A JavaScript string is a sequence of one-character strings, so that     *)
(* toLowerCase, includes, indexOf, slice, split and startsWith are         *)
(* computed and not assumed.  The URI scheme marker "file://" is a single  *)
(* element of a path string.                                               *)
(***************************************************************************)
EXTENDS Integers, Sequences, FiniteSets, TLC

VARIABLES
    query,                    \* searchParams.get('q'): Undefined when absent
    type,                     \* searchParams.get('type'): "" when absent
    readdirOk,                \* whether fs.readdir(workspacePath) succeeds
    workspaceDirs,            \* the directories under the workspace root
    globalStore,              \* ../globalStorage/state.vscdb
    now,                      \* the clock read by new Date()
    pc,                       \* position of the handler
    workspaceEntries,         \* local of GET
    projectNameToWorkspaceId, \* local of GET
    results,                  \* local of GET: the accumulation buffer
    globalDb,                 \* local of GET: "null" or "open"
    openDbs,                  \* legacy handles (local db) opened and not closed
    entryIdx,                 \* index of the legacy loop over workspaceEntries
    response,                 \* the NextResponse returned
    opened,                   \* stores whose handle was opened, in order
    dirScanned,               \* whether fs.readdir was called
    searched,                 \* the sources whose rows were queried
    input,                    \* the argument of a helper applied on its own
    output,                   \* what the helper returned
    open,                     \* GlobalSearch: useState(false)
    searchQuery,              \* GlobalSearch: the state query
    searchResults,            \* GlobalSearch: the state results
    isLoading,                \* GlobalSearch: useState(false)
    selectedIndex,            \* GlobalSearch: useState(0)
    filter,                   \* GlobalSearch: useState('all')
    timer,                    \* GlobalSearch: the pending debounce timer
    fetches                   \* GlobalSearch: the fetch promises, in start order

handlerVars == <<query, type, readdirOk, workspaceDirs, globalStore, now, pc,
                 workspaceEntries, projectNameToWorkspaceId, results, globalDb,
                 openDbs, entryIdx, response, opened, dirScanned, searched>>

helperVars == <<input, output>>

componentVars == <<open, searchQuery, searchResults, isLoading, selectedIndex,
                   filter, timer, fetches>>

vars == <<handlerVars, helperVars, componentVars>>

-----------------------------------------------------------------------------
(* JavaScript values *)

\* undefined / null where a string is expected
Undefined == <<"undefined">>

\* a JSON value that is a number where a string is expected
NonString == <<"number">>

IsString(v) == v # Undefined /\ v # NonString

\* truthiness of a string-or-undefined value
Truthy(v) == v # Undefined /\ v # <<>>

Min(a, b) == IF a < b THEN a ELSE b
Max(a, b) == IF a > b THEN a ELSE b

LowerOf ==
    [A |-> "a", B |-> "b", C |-> "c", D |-> "d", E |-> "e", F |-> "f",
     G |-> "g", H |-> "h", I |-> "i", J |-> "j", K |-> "k", L |-> "l",
     M |-> "m", N |-> "n", O |-> "o", P |-> "p", Q |-> "q", R |-> "r",
     S |-> "s", T |-> "t", U |-> "u", V |-> "v", W |-> "w", X |-> "x",
     Y |-> "y", Z |-> "z"]

\* U+0130, the capital I with a dot above: one code unit whose lower case is
\* the two code units U+0069 U+0307
DottedI == "I-dot"
CombiningDot == "dot"

\* the lower case of one code unit
LowerUnits(c) ==
    IF c = DottedI THEN <<"i", CombiningDot>>
    ELSE IF c \in DOMAIN LowerOf THEN <<LowerOf[c]>> ELSE <<c>>

\* the lower case of every code unit, in order
RECURSIVE LowerEach(_)
LowerEach(s) ==
    IF s = <<>> THEN <<>>
    ELSE IF Len(s) = 1 THEN LowerUnits(s[1])
    ELSE LowerEach(SubSeq(s, 1, Len(s) \div 2))
         \o LowerEach(SubSeq(s, Len(s) \div 2 + 1, Len(s)))

\* String.prototype.toLowerCase
ToLowerCase(s) ==
    IF \A i \in 1..Len(s) : s[i] # DottedI
    THEN [i \in 1..Len(s) |-> IF s[i] \in DOMAIN LowerOf THEN LowerOf[s[i]] ELSE s[i]]
    ELSE LowerEach(s)

\* String.prototype.slice(start, end), 0-based, end exclusive
Slice(s, start, end) ==
    IF end <= start THEN <<>> ELSE SubSeq(s, start + 1, Min(end, Len(s)))

\* String.prototype.startsWith
StartsWith(s, p) == Len(p) <= Len(s) /\ SubSeq(s, 1, Len(p)) = p

\* the 0-based offsets at which sub occurs in s
Occurrences(s, sub) ==
    {i \in 0..(Len(s) - Len(sub)) : SubSeq(s, i + 1, i + Len(sub)) = sub}

\* String.prototype.includes
Includes(s, sub) == Occurrences(s, sub) # {}

\* String.prototype.indexOf: the first occurrence, -1 when there is none
IndexOf(s, sub) ==
    IF Occurrences(s, sub) = {} THEN -1
    ELSE CHOOSE i \in Occurrences(s, sub) : \A j \in Occurrences(s, sub) : i <= j

\* String.prototype.trim() is the empty string
TrimIsEmpty(s) == \A i \in 1..Len(s) : s[i] = " "

\* String.prototype.replace(pattern, '') with a string pattern: first occurrence
ReplaceFirst(s, pat) ==
    IF IndexOf(s, pat) = -1 THEN s
    ELSE Slice(s, 0, IndexOf(s, pat)) \o Slice(s, IndexOf(s, pat) + Len(pat), Len(s))

\* s.split(sep).pop(): what follows the last separator, s when there is none
SplitPop(s, sep) ==
    IF \E i \in 1..Len(s) : s[i] = sep
    THEN LET last == CHOOSE i \in 1..Len(s) :
                        s[i] = sep /\ \A j \in (i + 1)..Len(s) : s[j] # sep
         IN  SubSeq(s, last + 1, Len(s))
    ELSE s

FileScheme == <<"file://">>

-----------------------------------------------------------------------------
(* Rich text: a node is [isNull, type, text, children]; children is a      *)
(* sequence of nodes, empty when the node has no children array; isNull    *)
(* marks the JSON value null standing where a node is expected.            *)

\* the outcome of a call that throws a TypeError
Threw == <<"TypeError">>

\* child.type, child.text and child.children of null throw
RECURSIVE extractTextFromRichText(_)
extractTextFromRichText(children) ==
    IF children = <<>> THEN <<>>
    ELSE LET child == Head(children)
         IN  IF child.isNull THEN Threw
             ELSE LET own == IF child.type = "text" /\ Truthy(child.text)
                             THEN child.text
                             ELSE extractTextFromRichText(child.children)
                      rest == IF own = Threw THEN Threw
                              ELSE extractTextFromRichText(Tail(children))
                  IN  IF own = Threw \/ rest = Threw THEN Threw ELSE own \o rest

\* bubble.richText is [present, parses, hasRoot, iterable, children]: the
\* field is truthy, JSON.parse accepts it, the value has root.children, and
\* root.children can be iterated.  bubble.text.trim() throws when text is a
\* truthy value that is no string; what the try block catches gives ''.
extractTextFromBubble(bubble) ==
    IF bubble.text = NonString THEN Threw
    ELSE LET text == IF Truthy(bubble.text) /\ ~TrimIsEmpty(bubble.text)
                     THEN bubble.text ELSE <<>>
         IN  IF text = <<>> /\ bubble.richText.present
             THEN IF /\ bubble.richText.parses
                     /\ bubble.richText.hasRoot
                     /\ bubble.richText.iterable
                     /\ extractTextFromRichText(bubble.richText.children) # Threw
                  THEN extractTextFromRichText(bubble.richText.children)
                  ELSE <<>>
             ELSE text

-----------------------------------------------------------------------------
(* Project resolution *)

\* the result null of the resolver and of getProjectFromFilePath
NoProject == Undefined

RECURSIVE FirstEntryWithPrefix(_, _)
FirstEntryWithPrefix(normalizedPath, entries) ==
    IF entries = <<>> THEN NoProject
    ELSE IF Truthy(Head(entries).folder)
            /\ StartsWith(normalizedPath, ReplaceFirst(Head(entries).folder, FileScheme))
         THEN Head(entries).name
         ELSE FirstEntryWithPrefix(normalizedPath, Tail(entries))

getProjectFromFilePath(filePath, entries) ==
    FirstEntryWithPrefix(ReplaceFirst(filePath, FileScheme), entries)

\* the first path of a list that lies in a workspace; falsy paths are skipped
RECURSIVE FirstProjectOfPaths(_, _)
FirstProjectOfPaths(paths, entries) ==
    IF paths = <<>> THEN NoProject
    ELSE LET hit == IF Truthy(Head(paths))
                    THEN getProjectFromFilePath(Head(paths), entries)
                    ELSE NoProject
         IN  IF hit # NoProject THEN hit
             ELSE FirstProjectOfPaths(Tail(paths), entries)

\* stage 1: projectLayouts looked up in projectNameToWorkspaceId
RECURSIVE ProjectFromLayouts(_, _)
ProjectFromLayouts(projectLayouts, nameToId) ==
    IF projectLayouts = <<>> THEN NoProject
    ELSE IF Head(projectLayouts) \in DOMAIN nameToId
              /\ Truthy(nameToId[Head(projectLayouts)])
         THEN nameToId[Head(projectLayouts)]
         ELSE ProjectFromLayouts(Tail(projectLayouts), nameToId)

\* stage 2: newlyCreatedFiles, each entry is its uri.path
ProjectFromNewFiles(newlyCreatedFiles, entries) ==
    FirstProjectOfPaths(newlyCreatedFiles, entries)

\* stage 3: the keys of codeBlockData
RECURSIVE ProjectFromCodeBlocks(_, _)
ProjectFromCodeBlocks(keys, entries) ==
    IF keys = <<>> THEN NoProject
    ELSE LET hit == getProjectFromFilePath(Head(keys), entries)
         IN  IF hit # NoProject THEN hit
             ELSE ProjectFromCodeBlocks(Tail(keys), entries)

\* stage 4: relevantFiles, then context.fileSelections, of each bubble in order
RECURSIVE ProjectFromBubbles(_, _, _)
ProjectFromBubbles(headers, bubbleMap, entries) ==
    IF headers = <<>> THEN NoProject
    ELSE LET hit ==
                 IF Head(headers) \in DOMAIN bubbleMap
                 THEN LET bubble == bubbleMap[Head(headers)]
                          rel == FirstProjectOfPaths(bubble.relevantFiles, entries)
                      IN  IF rel # NoProject THEN rel
                          ELSE FirstProjectOfPaths(bubble.fileSelections, entries)
                 ELSE NoProject
         IN  IF hit # NoProject THEN hit
             ELSE ProjectFromBubbles(Tail(headers), bubbleMap, entries)

\* a variant that tries the file paths before the project layouts
determineProjectFilePathsFirst(composerData, composerId, projectLayoutsMap, nameToId, entries, bubbleMap) ==
    LET projectLayouts == IF composerId \in DOMAIN projectLayoutsMap
                          THEN projectLayoutsMap[composerId] ELSE <<>>
        byLayout == ProjectFromLayouts(projectLayouts, nameToId)
        byNewFiles == ProjectFromNewFiles(composerData.newlyCreatedFiles, entries)
        byCodeBlocks == ProjectFromCodeBlocks(composerData.codeBlockData, entries)
        byBubbles == ProjectFromBubbles(composerData.fullConversationHeadersOnly,
                                        bubbleMap, entries)
    IN  IF byNewFiles # NoProject THEN byNewFiles
        ELSE IF byCodeBlocks # NoProject THEN byCodeBlocks
        ELSE IF byLayout # NoProject THEN byLayout
        ELSE byBubbles

determineProjectForConversation(composerData, composerId, projectLayoutsMap, nameToId, entries, bubbleMap) ==
    LET projectLayouts == IF composerId \in DOMAIN projectLayoutsMap
                          THEN projectLayoutsMap[composerId] ELSE <<>>
        byLayout == ProjectFromLayouts(projectLayouts, nameToId)
        byNewFiles == ProjectFromNewFiles(composerData.newlyCreatedFiles, entries)
        byCodeBlocks == ProjectFromCodeBlocks(composerData.codeBlockData, entries)
        byBubbles == ProjectFromBubbles(composerData.fullConversationHeadersOnly,
                                        bubbleMap, entries)
    IN  IF byLayout # NoProject THEN byLayout
        ELSE IF byNewFiles # NoProject THEN byNewFiles
        ELSE IF byCodeBlocks # NoProject THEN byCodeBlocks
        ELSE byBubbles

-----------------------------------------------------------------------------
(* Timestamps: a JSON number, a string, or undefined *)

TNum(n) == [k |-> "number", n |-> n, s |-> ""]
TStr(s) == [k |-> "string", n |-> 0, s |-> s]
TUndef == [k |-> "undefined", n |-> 0, s |-> ""]

\* truthiness of a timestamp field, as the || chains test it
TsTruthy(ts) ==
    \/ ts.k = "number" /\ ts.n # 0
    \/ ts.k = "string" /\ ts.s # ""

\* the text Date.prototype.toISOString gives for the instants 1, 2, 3
IsoText ==
    <<"1970-01-01T00:00:00.001Z", "1970-01-01T00:00:00.002Z",
      "1970-01-01T00:00:00.003Z">>

toISOString(t) == IsoText[t]

\* new Date(s).getTime(): the instant of a date-time text, NaN otherwise
DateParse(s) ==
    IF \E t \in DOMAIN IsoText : IsoText[t] = s
    THEN [nan |-> FALSE, v |-> CHOOSE t \in DOMAIN IsoText : IsoText[t] = s]
    ELSE [nan |-> TRUE, v |-> 0]

\* timeA / timeB of the sort comparator
ResolveTime(ts) ==
    IF ts.k = "number" THEN [nan |-> FALSE, v |-> ts.n] ELSE DateParse(ts.s)

-----------------------------------------------------------------------------
(* Matching *)

SnippetBefore == 50
SnippetAfter == 100
Ellipsis == <<".", ".", ".">>

\* the snippet around the first match of queryLower in text
Snippet(text, q, queryLower) ==
    LET matchIndex == IndexOf(ToLowerCase(text), queryLower)
        start == Max(0, matchIndex - SnippetBefore)
        end == Min(Len(text), matchIndex + Len(q) + SnippetAfter)
    IN  (IF start > 0 THEN Ellipsis ELSE <<>>)
        \o Slice(text, start, end)
        \o (IF end < Len(text) THEN Ellipsis ELSE <<>>)

\* x?.toLowerCase().includes(queryLower) on a string or undefined
OptIncludes(v, queryLower) == Truthy(v) /\ Includes(ToLowerCase(v), queryLower)

\* a variant that compares with the query as typed
QueryAsTyped(q) == q

\* const queryLower = query.toLowerCase()
QueryLowerOf(q) == ToLowerCase(q)

NoMatch == [hasMatch |-> FALSE, matchingText |-> <<>>]

\* the bubbles of a unified conversation, matched on their extracted text; a
\* throw of the extraction leaves the try block of the row, nothing is pushed
RECURSIVE MatchHeaders(_, _, _, _)
MatchHeaders(headers, bubbleMap, q, queryLower) ==
    IF headers = <<>> THEN NoMatch
    ELSE IF Head(headers) \in DOMAIN bubbleMap
            /\ extractTextFromBubble(bubbleMap[Head(headers)]) = Threw
         THEN NoMatch
    ELSE IF Head(headers) \in DOMAIN bubbleMap
            /\ Includes(ToLowerCase(extractTextFromBubble(bubbleMap[Head(headers)])),
                        queryLower)
         THEN [hasMatch |-> TRUE,
               matchingText |->
                   Snippet(extractTextFromBubble(bubbleMap[Head(headers)]), q, queryLower)]
         ELSE MatchHeaders(Tail(headers), bubbleMap, q, queryLower)

\* a variant that takes the snippet from the last matching bubble
RECURSIVE MatchInlineLast(_, _, _)
MatchInlineLast(bubbles, q, queryLower) ==
    IF bubbles = <<>> THEN NoMatch
    ELSE IF MatchInlineLast(Tail(bubbles), q, queryLower).hasMatch
         THEN MatchInlineLast(Tail(bubbles), q, queryLower)
         ELSE IF OptIncludes(Head(bubbles).text, queryLower)
              THEN [hasMatch |-> TRUE,
                    matchingText |-> Snippet(Head(bubbles).text, q, queryLower)]
              ELSE NoMatch

\* inline bubbles or messages of a legacy conversation, matched on .text
RECURSIVE MatchInline(_, _, _)
MatchInline(bubbles, q, queryLower) ==
    IF bubbles = <<>> THEN NoMatch
    ELSE IF OptIncludes(Head(bubbles).text, queryLower)
         THEN [hasMatch |-> TRUE,
               matchingText |-> Snippet(Head(bubbles).text, q, queryLower)]
         ELSE MatchInline(Tail(bubbles), q, queryLower)

SearchResult(workspaceId, workspaceFolder, chatId, chatTitle, timestamp, matchingText, kind) ==
    [workspaceId |-> workspaceId, workspaceFolder |-> workspaceFolder,
     chatId |-> chatId, chatTitle |-> chatTitle, timestamp |-> timestamp,
     matchingText |-> matchingText, type |-> kind]

-----------------------------------------------------------------------------
(* Scanning the stores.  A row value is [parses, data]: JSON.parse throws  *)
(* on it or gives data.  A document row is [present, parses, items].  An   *)
(* item with isNull is the JSON value null in the list.                    *)

GlobalName == <<"g", "l", "o", "b", "a", "l">>
ConversationPrefix ==
    <<"C", "o", "n", "v", "e", "r", "s", "a", "t", "i", "o", "n", " ">>
ChatPrefix == <<"C", "h", "a", "t", " ">>
ComposerPrefix == <<"C", "o", "m", "p", "o", "s", "e", "r", " ">>
Untitled == <<"U", "n", "t", "i", "t", "l", "e", "d">>
IdPrefixLen == 8

SearchesChat(t) == t = "all" \/ t = "chat"

\* a variant that reads the agent sources whatever the type
SearchesComposerAlways(t) == TRUE

SearchesComposer(t) == t = "all" \/ t = "composer"

\* bubbleMap: the last parsable row of each bubble id
BuildBubbleMap(bubbleRows) ==
    LET good == {i \in DOMAIN bubbleRows : bubbleRows[i].parses}
        ids == {bubbleRows[i].bubbleId : i \in good}
    IN  [id \in ids |->
            bubbleRows[CHOOSE i \in good :
                          /\ bubbleRows[i].bubbleId = id
                          /\ \A j \in good : bubbleRows[j].bubbleId = id => j <= i].bubble]

\* the root paths of one messageRequestContext row
RECURSIVE LayoutRootPaths(_)
LayoutRootPaths(layouts) ==
    IF layouts = <<>> THEN <<>>
    ELSE (IF Head(layouts).parses /\ Truthy(Head(layouts).rootPath)
          THEN <<Head(layouts).rootPath>> ELSE <<>>)
         \o LayoutRootPaths(Tail(layouts))

RECURSIVE RootPathsOf(_, _)
RootPathsOf(contextRows, composerId) ==
    IF contextRows = <<>> THEN <<>>
    ELSE (IF Head(contextRows).composerId = composerId /\ Head(contextRows).parses
          THEN LayoutRootPaths(Head(contextRows).layouts) ELSE <<>>)
         \o RootPathsOf(Tail(contextRows), composerId)

BuildProjectLayoutsMap(contextRows) ==
    [id \in {contextRows[i].composerId : i \in DOMAIN contextRows} |->
        RootPathsOf(contextRows, id)]

\* workspaceEntries.find(e => e.name === projectId)?.folder
RECURSIVE FolderOf(_, _)
FolderOf(entries, projectId) ==
    IF entries = <<>> THEN Undefined
    ELSE IF Head(entries).name = projectId THEN Head(entries).folder
         ELSE FolderOf(Tail(entries), projectId)

\* a || b || new Date().toISOString()
TimestampOf(lastUpdatedAt, createdAt, clock) ==
    IF TsTruthy(lastUpdatedAt) THEN lastUpdatedAt
    ELSE IF TsTruthy(createdAt) THEN createdAt
    ELSE TStr(toISOString(clock))

\* a variant that pushes every match, resolved or not
PushesEveryMatch(hasMatch, projectId) == hasMatch

\* if (hasMatch && projectId)
Pushes(hasMatch, projectId) == hasMatch /\ projectId # NoProject

\* what one composerData row of the unified store pushes
ComposerRowResult(row, bubbleMap, projectLayoutsMap, nameToId, entries, q, clock) ==
    IF ~row.parses \/ row.data.name = NonString THEN <<>>
    ELSE LET composerData == row.data
             composerId == row.composerId
             queryLower == QueryLowerOf(q)
             projectId == determineProjectForConversation(
                              composerData, composerId, projectLayoutsMap,
                              nameToId, entries, bubbleMap)
             title == IF Truthy(composerData.name) THEN composerData.name
                      ELSE ConversationPrefix \o Slice(composerId, 0, IdPrefixLen)
             m == IF Includes(ToLowerCase(title), queryLower)
                  THEN [hasMatch |-> TRUE, matchingText |-> title]
                  ELSE MatchHeaders(composerData.fullConversationHeadersOnly,
                                    bubbleMap, q, queryLower)
         IN  IF Pushes(m.hasMatch, projectId)
             THEN <<SearchResult(projectId, FolderOf(entries, projectId), composerId,
                                 title,
                                 TimestampOf(composerData.lastUpdatedAt,
                                             composerData.createdAt, clock),
                                 m.matchingText, "composer")>>
             ELSE <<>>

RECURSIVE ScanComposerRows(_, _, _, _, _, _, _)
ScanComposerRows(rows, bubbleMap, projectLayoutsMap, nameToId, entries, q, clock) ==
    IF rows = <<>> THEN <<>>
    ELSE ComposerRowResult(Head(rows), bubbleMap, projectLayoutsMap, nameToId,
                           entries, q, clock)
         \o ScanComposerRows(Tail(rows), bubbleMap, projectLayoutsMap, nameToId,
                             entries, q, clock)

\* processing this tab throws inside the try around the whole tab list
TabThrows(tab) == tab.isNull \/ tab.chatTitle = NonString

TabResult(tab, workspaceId, workspaceFolder, q, clock) ==
    LET queryLower == QueryLowerOf(q)
        m == IF OptIncludes(tab.chatTitle, queryLower)
             THEN [hasMatch |-> TRUE, matchingText |-> tab.chatTitle]
             ELSE MatchInline(tab.bubbles, q, queryLower)
    IN  IF m.hasMatch
        THEN <<SearchResult(workspaceId, workspaceFolder, tab.tabId,
                            IF Truthy(tab.chatTitle) THEN tab.chatTitle
                            ELSE ChatPrefix \o
                                 (IF Truthy(tab.tabId)
                                  THEN Slice(tab.tabId, 0, IdPrefixLen)
                                  ELSE Untitled),
                            TimestampOf(tab.lastSendTime, TUndef, clock),
                            m.matchingText, "chat")>>
        ELSE <<>>

\* the loop over chatData.tabs: a throw leaves the loop, earlier pushes stay
RECURSIVE ScanTabs(_, _, _, _, _)
ScanTabs(tabs, workspaceId, workspaceFolder, q, clock) ==
    IF tabs = <<>> \/ TabThrows(Head(tabs)) THEN <<>>
    ELSE TabResult(Head(tabs), workspaceId, workspaceFolder, q, clock)
         \o ScanTabs(Tail(tabs), workspaceId, workspaceFolder, q, clock)

ScanChatDocument(doc, workspaceId, workspaceFolder, q, clock) ==
    IF doc.present /\ doc.parses
    THEN ScanTabs(doc.items, workspaceId, workspaceFolder, q, clock)
    ELSE <<>>

LegacyComposerMatch(composer, q) ==
    IF OptIncludes(composer.text, QueryLowerOf(q))
    THEN [hasMatch |-> TRUE, matchingText |-> composer.text]
    ELSE MatchInline(composer.conversation, q, QueryLowerOf(q))

\* processing this composer throws inside the try around the whole list
LegacyComposerThrows(composer, q) ==
    \/ composer.isNull
    \/ composer.text = NonString
    \/ /\ LegacyComposerMatch(composer, q).hasMatch
       /\ ~Truthy(composer.text)
       /\ composer.composerId = Undefined

LegacyComposerResult(composer, workspaceId, workspaceFolder, q, clock) ==
    LET m == LegacyComposerMatch(composer, q)
    IN  IF m.hasMatch
        THEN <<SearchResult(workspaceId, workspaceFolder, composer.composerId,
                            IF Truthy(composer.text) THEN composer.text
                            ELSE ComposerPrefix \o
                                 Slice(composer.composerId, 0, IdPrefixLen),
                            TimestampOf(composer.lastUpdatedAt, composer.createdAt,
                                        clock),
                            m.matchingText, "composer")>>
        ELSE <<>>

RECURSIVE ScanLegacyComposers(_, _, _, _, _)
ScanLegacyComposers(composers, workspaceId, workspaceFolder, q, clock) ==
    IF composers = <<>> \/ LegacyComposerThrows(Head(composers), q) THEN <<>>
    ELSE LegacyComposerResult(Head(composers), workspaceId, workspaceFolder, q, clock)
         \o ScanLegacyComposers(Tail(composers), workspaceId, workspaceFolder, q, clock)

ScanComposerDocument(doc, workspaceId, workspaceFolder, q, clock) ==
    IF doc.present /\ doc.parses
    THEN ScanLegacyComposers(doc.items, workspaceId, workspaceFolder, q, clock)
    ELSE <<>>

-----------------------------------------------------------------------------
(* The stores of one request *)

\* const type = searchParams.get('type') || 'all'
TypeOf(param) == IF param = "" THEN "all" ELSE param

\* a directory entry becomes a workspace entry when it holds workspace.json
DirEntry(dir) ==
    [name |-> dir.name,
     folder |-> IF dir.descriptor = "ok" /\ Truthy(dir.folder) THEN dir.folder
                ELSE <<>>]

RECURSIVE BuildWorkspaceEntries(_)
BuildWorkspaceEntries(dirs) ==
    IF dirs = <<>> THEN <<>>
    ELSE (IF Head(dirs).descriptor = "absent" THEN <<>> ELSE <<DirEntry(Head(dirs))>>)
         \o BuildWorkspaceEntries(Tail(dirs))

\* entry.folder.split('/').pop() || entry.folder.split('\\').pop()
FolderName(folder) ==
    IF SplitPop(folder, "/") # <<>> THEN SplitPop(folder, "/")
    ELSE SplitPop(folder, "\\")

\* entry.folder.split throws when the folder of workspace.json is no string
FolderIndexThrows(entries) ==
    \E i \in DOMAIN entries : entries[i].folder = NonString

BuildProjectNameToWorkspaceId(entries) ==
    LET named == {i \in DOMAIN entries :
                     Truthy(entries[i].folder) /\ FolderName(entries[i].folder) # <<>>}
    IN  [folderName \in {FolderName(entries[i].folder) : i \in named} |->
            entries[CHOOSE i \in named :
                       /\ FolderName(entries[i].folder) = folderName
                       /\ \A j \in named :
                              FolderName(entries[j].folder) = folderName => j <= i].name]

\* what the unified-store block pushes once the handle is open
GlobalContribution(store, t, nameToId, entries, q, clock) ==
    IF store.health = "kvfail" THEN <<>>
    ELSE (IF SearchesComposer(t)
          THEN ScanComposerRows(store.composerRows, BuildBubbleMap(store.bubbleRows),
                                BuildProjectLayoutsMap(store.contextRows),
                                nameToId, entries, q, clock)
          ELSE <<>>)
         \o (IF SearchesChat(t) /\ store.health # "itemfail"
             THEN ScanChatDocument(store.chat, GlobalName, Undefined, q, clock)
             ELSE <<>>)

\* the conversation sources the unified-store block queries
GlobalSearched(store, t) ==
    IF store.health = "kvfail" THEN {}
    ELSE (IF SearchesComposer(t)
          THEN {[store |-> GlobalName, kind |-> "composer"]} ELSE {})
         \cup (IF SearchesChat(t) /\ store.health # "itemfail"
               THEN {[store |-> GlobalName, kind |-> "chat"]} ELSE {})

\* a statement on the legacy store throws, outside the inner try blocks
LegacyThrows(db, t) ==
    db.health = "queryfail" /\ (SearchesChat(t) \/ SearchesComposer(t))

\* what the body of the legacy loop pushes once the handle is open
LegacyContribution(db, entry, t, q, clock) ==
    IF LegacyThrows(db, t) THEN <<>>
    ELSE (IF SearchesChat(t)
          THEN ScanChatDocument(db.chat, entry.name, entry.folder, q, clock)
          ELSE <<>>)
         \o (IF SearchesComposer(t)
             THEN ScanComposerDocument(db.composer, entry.name, entry.folder, q, clock)
             ELSE <<>>)

LegacySearched(db, entry, t) ==
    IF LegacyThrows(db, t) THEN {}
    ELSE (IF SearchesChat(t) THEN {[store |-> entry.name, kind |-> "chat"]} ELSE {})
         \cup (IF SearchesComposer(t)
               THEN {[store |-> entry.name, kind |-> "composer"]} ELSE {})

\* the state.vscdb of the workspace directory called name
DbOf(dirs, name) ==
    dirs[CHOOSE i \in DOMAIN dirs : dirs[i].name = name].db

\* what the legacy loop pushes over all workspace entries
RECURSIVE LegacyResults(_, _, _, _, _)
LegacyResults(entries, dirs, t, q, clock) ==
    IF entries = <<>> THEN <<>>
    ELSE (IF DbOf(dirs, Head(entries).name).health \in {"absent", "openfail"}
          THEN <<>>
          ELSE LegacyContribution(DbOf(dirs, Head(entries).name), Head(entries), t, q,
                                  clock))
         \o LegacyResults(Tail(entries), dirs, t, q, clock)

\* the accumulation buffer of a request for q on the given stores, when the
\* workspace root can be listed
RequestResults(q, t, dirs, store, clock) ==
    LET entries == BuildWorkspaceEntries(dirs)
    IN  (IF store.health \in {"absent", "openfail"} THEN <<>>
         ELSE GlobalContribution(store, t, BuildProjectNameToWorkspaceId(entries),
                                 entries, q, clock))
        \o LegacyResults(entries, dirs, t, q, clock)

-----------------------------------------------------------------------------
(* Deduplication and ranking *)

\* a variant that keeps every entry
KeepEveryResult(rs) == rs

\* a variant that keeps the last entry of every chatId
KeepLastOccurrence(rs) ==
    LET keep == {i \in DOMAIN rs :
                    \A j \in (i + 1)..Len(rs) : rs[j].chatId # rs[i].chatId}
        F[i \in 0..Len(rs)] ==
            IF i = 0 THEN <<>>
            ELSE IF i \in keep THEN Append(F[i - 1], rs[i]) ELSE F[i - 1]
    IN  F[Len(rs)]

\* results.filter((r, index, self) => index === self.findIndex(same chatId))
RemoveDuplicates(rs) ==
    LET keep == {i \in DOMAIN rs : \A j \in 1..(i - 1) : rs[j].chatId # rs[i].chatId}
        F[i \in 0..Len(rs)] ==
            IF i = 0 THEN <<>>
            ELSE IF i \in keep THEN Append(F[i - 1], rs[i]) ELSE F[i - 1]
    IN  F[Len(rs)]

\* the comparator (a, b) => timeB - timeA; the sort reads a NaN result as 0
Compare(a, b) ==
    LET timeA == ResolveTime(a.timestamp)
        timeB == ResolveTime(b.timestamp)
    IN  IF timeA.nan \/ timeB.nan THEN 0 ELSE timeB.v - timeA.v

Reverse(rs) == [i \in 1..Len(rs) |-> rs[Len(rs) + 1 - i]]

\* the length of the run that starts the array: the elements are taken while
\* each compares below its predecessor (descending) or not below it
RECURSIVE RunLength(_, _, _)
RunLength(rs, idx, descending) ==
    IF idx > Len(rs) THEN Len(rs)
    ELSE IF descending = (Compare(rs[idx], rs[idx - 1]) < 0)
         THEN RunLength(rs, idx + 1, descending)
         ELSE idx - 1

\* binary search of the place of pivot in rs[left+1 .. right], 0-based bounds
RECURSIVE InsertionPoint(_, _, _, _)
InsertionPoint(rs, pivot, left, right) ==
    IF left >= right THEN left
    ELSE LET mid == left + ((right - left) \div 2)
         IN  IF Compare(pivot, rs[mid + 1]) < 0
             THEN InsertionPoint(rs, pivot, left, mid)
             ELSE InsertionPoint(rs, pivot, mid + 1, right)

\* binary insertion of rs[start+1], rs[start+2], ... into the sorted prefix
RECURSIVE BinaryInsertionSort(_, _)
BinaryInsertionSort(rs, start) ==
    IF start >= Len(rs) THEN rs
    ELSE LET pivot == rs[start + 1]
             left == InsertionPoint(rs, pivot, 0, start)
         IN  BinaryInsertionSort(
                 SubSeq(rs, 1, left) \o <<pivot>> \o SubSeq(rs, left + 1, start)
                     \o SubSeq(rs, start + 2, Len(rs)),
                 start + 1)

\* Array.prototype.sort with the comparator, as Node's engine runs it on an
\* array of fewer than 64 elements: the leading run is found (and reversed
\* when descending), the other elements are inserted by binary search
SortByTime(rs) ==
    IF Len(rs) < 2 THEN rs
    ELSE LET descending == Compare(rs[2], rs[1]) < 0
             run == RunLength(rs, 3, descending)
             prepared == IF descending
                         THEN Reverse(SubSeq(rs, 1, run)) \o SubSeq(rs, run + 1, Len(rs))
                         ELSE rs
         IN  BinaryInsertionSort(prepared, run)

-----------------------------------------------------------------------------
(* The handler GET, step by step *)

NoResponse == [status |-> 0, error |-> "", results |-> <<>>, body |-> {}]

\* NextResponse.json({ error: 'No search query provided' }, { status: 400 })
MissingQueryResponse ==
    [status |-> 400, error |-> "No search query provided", results |-> <<>>,
     body |-> {"error"}]

\* NextResponse.json({ error: 'Search failed', results: [] }, { status: 500 })
FailureResponse ==
    [status |-> 500, error |-> "Search failed", results |-> <<>>,
     body |-> {"error", "results"}]

\* NextResponse.json({ results: uniqueResults })
SuccessResponse(uniqueResults) ==
    [status |-> 200, error |-> "", results |-> uniqueResults, body |-> {"results"}]

\* a variant that rejects only an absent parameter
QueryAbsent(q) == q = Undefined

\* if (!query)
QueryMissing(q) == ~Truthy(q)

\* a variant of the outer catch that answers with the default status
FailWithoutStatus ==
    /\ globalDb' = "null"
    /\ response' = [status |-> 200, error |-> "Search failed", results |-> <<>>,
                    body |-> {"error", "results"}]
    /\ pc' = "done"

\* the outer catch: close globalDb when it is set, answer 500
Fail ==
    /\ globalDb' = "null"
    /\ response' = FailureResponse
    /\ pc' = "done"

\* lines 137-143: read the parameters, reject a request without a query
Validate ==
    /\ pc = "start"
    /\ UNCHANGED <<helperVars, componentVars>>
    /\ IF QueryMissing(query)
       THEN /\ response' = MissingQueryResponse
            /\ pc' = "done"
       ELSE /\ pc' = "scan"
            /\ UNCHANGED response
    /\ UNCHANGED <<query, type, readdirOk, workspaceDirs, globalStore, now,
                   workspaceEntries, projectNameToWorkspaceId, results, globalDb,
                   openDbs, entryIdx, opened, dirScanned, searched>>

\* lines 146-180: list the workspace root, read the descriptors, index the folders
ScanWorkspaces ==
    /\ pc = "scan"
    /\ UNCHANGED <<helperVars, componentVars>>
    /\ dirScanned' = TRUE
    /\ IF ~readdirOk
       THEN /\ Fail
            /\ UNCHANGED <<workspaceEntries, projectNameToWorkspaceId>>
       ELSE /\ workspaceEntries' = BuildWorkspaceEntries(workspaceDirs)
            /\ IF FolderIndexThrows(BuildWorkspaceEntries(workspaceDirs))
               THEN /\ Fail
                    /\ UNCHANGED projectNameToWorkspaceId
               ELSE /\ projectNameToWorkspaceId' =
                           BuildProjectNameToWorkspaceId(
                               BuildWorkspaceEntries(workspaceDirs))
                    /\ pc' = "global"
                    /\ UNCHANGED <<globalDb, response>>
    /\ UNCHANGED <<query, type, readdirOk, workspaceDirs, globalStore, now,
                   results, openDbs, entryIdx, opened, searched>>

\* lines 183-187: open the unified store when its file exists
OpenGlobal ==
    /\ pc = "global"
    /\ UNCHANGED <<helperVars, componentVars>>
    /\ IF globalStore.health \in {"absent", "openfail"}
       THEN /\ pc' = "legacy"
            /\ UNCHANGED <<globalDb, opened>>
       ELSE /\ globalDb' = "open"
            /\ opened' = Append(opened, GlobalName)
            /\ pc' = "globalScan"
    /\ UNCHANGED <<query, type, readdirOk, workspaceDirs, globalStore, now,
                   workspaceEntries, projectNameToWorkspaceId, results, openDbs,
                   entryIdx, response, dirScanned, searched>>

\* lines 189-378: scan the unified store, close it on both paths
ScanGlobal ==
    /\ pc = "globalScan"
    /\ UNCHANGED <<helperVars, componentVars>>
    /\ results' = results \o GlobalContribution(globalStore, TypeOf(type),
                                                projectNameToWorkspaceId,
                                                workspaceEntries, query, now)
    /\ searched' = searched \cup GlobalSearched(globalStore, TypeOf(type))
    /\ globalDb' = "null"
    /\ pc' = "legacy"
    /\ UNCHANGED <<query, type, readdirOk, workspaceDirs, globalStore, now,
                   workspaceEntries, projectNameToWorkspaceId, openDbs, entryIdx,
                   response, opened, dirScanned>>

\* lines 382-388: the next workspace entry; open its store when the file exists
OpenLegacy ==
    /\ pc = "legacy"
    /\ UNCHANGED <<helperVars, componentVars>>
    /\ entryIdx <= Len(workspaceEntries)
    /\ LET entry == workspaceEntries[entryIdx]
           db == DbOf(workspaceDirs, entry.name)
       IN  IF db.health \in {"absent", "openfail"}
           THEN /\ entryIdx' = entryIdx + 1
                /\ UNCHANGED <<pc, openDbs, opened>>
           ELSE /\ openDbs' = openDbs \cup {entry.name}
                /\ opened' = Append(opened, entry.name)
                /\ pc' = "legacyScan"
                /\ UNCHANGED entryIdx
    /\ UNCHANGED <<query, type, readdirOk, workspaceDirs, globalStore, now,
                   workspaceEntries, projectNameToWorkspaceId, results, globalDb,
                   response, dirScanned, searched>>

\* a variant without the try block around one legacy store: a statement that
\* throws reaches the outer catch
ScanLegacyUnguarded ==
    /\ pc = "legacyScan"
    /\ UNCHANGED <<helperVars, componentVars>>
    /\ LET entry == workspaceEntries[entryIdx]
           db == DbOf(workspaceDirs, entry.name)
       IN  IF LegacyThrows(db, TypeOf(type))
           THEN /\ Fail
                /\ UNCHANGED <<results, searched, openDbs, entryIdx>>
           ELSE /\ results' = results \o LegacyContribution(db, entry, TypeOf(type),
                                                            query, now)
                /\ searched' = searched \cup LegacySearched(db, entry, TypeOf(type))
                /\ openDbs' = openDbs \ {entry.name}
                /\ entryIdx' = entryIdx + 1
                /\ pc' = "legacy"
                /\ UNCHANGED <<globalDb, response>>
    /\ UNCHANGED <<query, type, readdirOk, workspaceDirs, globalStore, now,
                   workspaceEntries, projectNameToWorkspaceId, opened, dirScanned>>

\* lines 390-499: scan one legacy store; db.close() is the last statement of
\* the try block and the catch block only logs
ScanLegacy ==
    /\ pc = "legacyScan"
    /\ UNCHANGED <<helperVars, componentVars>>
    /\ LET entry == workspaceEntries[entryIdx]
           db == DbOf(workspaceDirs, entry.name)
       IN  /\ results' = results \o LegacyContribution(db, entry, TypeOf(type),
                                                       query, now)
           /\ searched' = searched \cup LegacySearched(db, entry, TypeOf(type))
           /\ openDbs' = IF LegacyThrows(db, TypeOf(type)) THEN openDbs
                         ELSE openDbs \ {entry.name}
    /\ entryIdx' = entryIdx + 1
    /\ pc' = "legacy"
    /\ UNCHANGED <<query, type, readdirOk, workspaceDirs, globalStore, now,
                   workspaceEntries, projectNameToWorkspaceId, globalDb, response,
                   opened, dirScanned>>

\* lines 502-514: deduplicate, sort, answer
Respond ==
    /\ pc = "legacy"
    /\ UNCHANGED <<helperVars, componentVars>>
    /\ entryIdx > Len(workspaceEntries)
    /\ response' = SuccessResponse(SortByTime(RemoveDuplicates(results)))
    /\ pc' = "done"
    /\ UNCHANGED <<query, type, readdirOk, workspaceDirs, globalStore, now,
                   workspaceEntries, projectNameToWorkspaceId, results, globalDb,
                   openDbs, entryIdx, opened, dirScanned, searched>>

Next ==
    \/ Validate
    \/ ScanWorkspaces
    \/ OpenGlobal
    \/ ScanGlobal
    \/ OpenLegacy
    \/ ScanLegacy
    \/ Respond

-----------------------------------------------------------------------------
(* The requests and store contents the model ranges over *)

MaxDirs == 2      \* workspace directories in a fault scenario
MaxItems == 2     \* records per list in a fault scenario

Digit == <<"1", "2", "3", "4", "5", "6", "7", "8", "9">>

QueryLower == <<"r", "e", "f", "a", "c", "t", "o", "r">>
QueryUpper == <<"R", "E", "F", "A", "C", "T", "O", "R">>
QueryMixed == <<"R", "e", "f", "a", "c", "t", "o", "r">>
TitleRefactor == <<"R", "e", "f", "a", "c", "t", "o", "r", " ", "A", "u", "t", "h", " ", "M", "o", "d", "u", "l", "e">>
TitleUpper == <<"R", "E", "F", "A", "C", "T", "O", "R", " ", "I", "T">>
TitleOther == <<"N", "o", "t", "e", "s">>
TextRefactor == <<"p", "l", "e", "a", "s", "e", " ", "r", "e", "f", "a", "c", "t", "o", "r", " ", "t", "h", "i", "s">>
TextUpper == <<"D", "o", " ", "R", "E", "F", "A", "C", "T", "O", "R", " ", "n", "o", "w">>
TextOther == <<"h", "e", "l", "l", "o">>

NoRichText ==
    [present |-> FALSE, parses |-> FALSE, hasRoot |-> FALSE, iterable |-> TRUE,
     children |-> <<>>]

Leaf(text) == [isNull |-> FALSE, type |-> "text", text |-> text, children |-> <<>>]
Container(children) ==
    [isNull |-> FALSE, type |-> "paragraph", text |-> Undefined, children |-> children]
NullNode == [isNull |-> TRUE, type |-> "", text |-> Undefined, children |-> <<>>]

RichText(children) ==
    [present |-> TRUE, parses |-> TRUE, hasRoot |-> TRUE, iterable |-> TRUE,
     children |-> children]

Bubble(text) ==
    [text |-> text, richText |-> NoRichText, relevantFiles |-> <<>>,
     fileSelections |-> <<>>]

BubbleRow(bubbleId, bubble) == [bubbleId |-> bubbleId, parses |-> TRUE, bubble |-> bubble]

Tab(tabId, chatTitle, bubbles, lastSendTime) ==
    [isNull |-> FALSE, tabId |-> tabId, chatTitle |-> chatTitle, bubbles |-> bubbles,
     lastSendTime |-> lastSendTime]

NullTab == [isNull |-> TRUE, tabId |-> Undefined, chatTitle |-> Undefined,
            bubbles |-> <<>>, lastSendTime |-> TUndef]

LegacyComposer(composerId, text, conversation, lastUpdatedAt) ==
    [isNull |-> FALSE, composerId |-> composerId, text |-> text,
     conversation |-> conversation, lastUpdatedAt |-> lastUpdatedAt,
     createdAt |-> TUndef]

NullComposer == [isNull |-> TRUE, composerId |-> Undefined, text |-> Undefined,
                 conversation |-> <<>>, lastUpdatedAt |-> TUndef, createdAt |-> TUndef]

ComposerData(name, headers, lastUpdatedAt, newlyCreatedFiles, codeBlockData) ==
    [name |-> name, fullConversationHeadersOnly |-> headers,
     lastUpdatedAt |-> lastUpdatedAt, createdAt |-> TUndef,
     newlyCreatedFiles |-> newlyCreatedFiles, codeBlockData |-> codeBlockData]

ComposerRow(composerId, data) == [composerId |-> composerId, parses |-> TRUE, data |-> data]

\* a composerData row whose value is no JSON
GarbageRow(composerId) ==
    [composerId |-> composerId, parses |-> FALSE,
     data |-> ComposerData(Undefined, <<>>, TUndef, <<>>, <<>>)]

ContextRow(composerId, rootPaths) ==
    [composerId |-> composerId, parses |-> TRUE,
     layouts |-> [i \in DOMAIN rootPaths |-> [parses |-> TRUE, rootPath |-> rootPaths[i]]]]

Document(items) == [present |-> TRUE, parses |-> TRUE, items |-> items]
NoDocument == [present |-> FALSE, parses |-> FALSE, items |-> <<>>]
GarbageDocument == [present |-> TRUE, parses |-> FALSE, items |-> <<>>]

Database(health, chat, composer) == [health |-> health, chat |-> chat, composer |-> composer]

GlobalStore(health, bubbleRows, contextRows, composerRows, chat) ==
    [health |-> health, bubbleRows |-> bubbleRows, contextRows |-> contextRows,
     composerRows |-> composerRows, chat |-> chat]

Dir(name, descriptor, folder, db) ==
    [name |-> name, descriptor |-> descriptor, folder |-> folder, db |-> db]

\* the directory name and the folder URI of the i-th workspace
DirName(i) == <<"w", Digit[i]>>
ProjectName(i) == <<"p", Digit[i]>>
FolderPath(i) == <<"/", "r", "/">> \o ProjectName(i)
FolderUri(i) == FileScheme \o FolderPath(i)
FileIn(i) == FolderPath(i) \o <<"/", "f">>

\* the state of GET before its first statement
HandlerInit ==
    /\ pc = "start"
    /\ workspaceEntries = <<>>
    /\ projectNameToWorkspaceId = <<>>
    /\ results = <<>>
    /\ globalDb = "null"
    /\ openDbs = {}
    /\ entryIdx = 1
    /\ response = NoResponse
    /\ opened = <<>>
    /\ dirScanned = FALSE
    /\ searched = {}

\* the type parameter: absent, the three values the handler tests, and the
\* names ask and agent, which it does not test
RequestTypes == {"", "all", "chat", "composer", "ask", "agent"}

GlobalHealth == {"absent", "openfail", "kvfail", "itemfail", "ok"}
LegacyHealth == {"absent", "openfail", "queryfail", "ok"}

BubbleId1 == <<"b", "1">>

\* well-formed records that match "refactor": by title when i is odd, by a
\* bubble when i is even
PlainTab(owner, i) ==
    IF i % 2 = 1
    THEN Tab(owner \o <<"c", Digit[i]>>, TitleRefactor, <<>>, TNum(i))
    ELSE Tab(owner \o <<"c", Digit[i]>>, TitleOther, <<Bubble(TextRefactor)>>, TNum(i))

PlainComposer(owner, i) ==
    IF i % 2 = 1
    THEN LegacyComposer(owner \o <<"a", Digit[i]>>, TitleRefactor, <<>>, TNum(i))
    ELSE LegacyComposer(owner \o <<"a", Digit[i]>>, TitleOther,
                        <<Bubble(TextRefactor)>>, TNum(i))

PlainRow(i) ==
    ComposerRow(<<"g", "a", Digit[i]>>,
                ComposerData(IF i % 2 = 1 THEN TitleRefactor ELSE TitleOther,
                             <<BubbleId1>>, TNum(i), <<>>, <<FileIn(1)>>))

\* lists of MaxItems records, the one at badPos malformed (none when 0)
TabsWithBad(owner, badPos) ==
    [i \in 1..MaxItems |-> IF i = badPos THEN NullTab ELSE PlainTab(owner, i)]

ComposersWithBad(owner, badPos) ==
    [i \in 1..MaxItems |-> IF i = badPos THEN NullComposer ELSE PlainComposer(owner, i)]

RowsWithBad(badPos) ==
    [i \in 1..MaxItems |->
        IF i = badPos THEN GarbageRow(<<"g", "a", Digit[i]>>) ELSE PlainRow(i)]

PlainGlobalStore(health, badPos) ==
    GlobalStore(health, <<BubbleRow(BubbleId1, Bubble(TextRefactor))>>, <<>>,
                RowsWithBad(badPos), Document(TabsWithBad(<<"g">>, badPos)))

PlainDatabase(health, owner, badPos) ==
    Database(health, Document(TabsWithBad(owner, badPos)),
             Document(ComposersWithBad(owner, badPos)))

\* stores that fail to open or to answer, and lists with one malformed record
InitFaults ==
    /\ query \in {Undefined, <<>>, QueryLower}
    /\ type \in RequestTypes
    /\ readdirOk = TRUE
    /\ \E badPos \in 0..MaxItems, gh \in GlobalHealth,
          lh \in [1..MaxDirs -> LegacyHealth] :
           /\ globalStore = PlainGlobalStore(gh, badPos)
           /\ workspaceDirs =
                  [i \in 1..MaxDirs |->
                      Dir(DirName(i), "ok", FolderUri(i),
                          PlainDatabase(lh[i], DirName(i), badPos))]
    /\ now = 2
    /\ HandlerInit

DescriptorKinds == {"absent", "garbage", "ok", "nofolder", "nonstring"}

DirWithDescriptor(i, kind) ==
    Dir(DirName(i),
        IF kind \in {"absent", "garbage"} THEN kind ELSE "ok",
        IF kind = "ok" THEN FolderUri(i)
        ELSE IF kind = "nonstring" THEN NonString ELSE Undefined,
        PlainDatabase("ok", DirName(i), 0))

\* a workspace root that cannot be listed, descriptors of every kind
InitOrchestration ==
    /\ query = QueryLower
    /\ type = ""
    /\ readdirOk \in BOOLEAN
    /\ \E kinds \in [1..MaxDirs -> DescriptorKinds] :
           workspaceDirs = [i \in 1..MaxDirs |-> DirWithDescriptor(i, kinds[i])]
    /\ globalStore = PlainGlobalStore("ok", 0)
    /\ now = 2
    /\ HandlerInit

IdA == <<"c", "h", "a", "t", "-", "a">>
IdB == <<"c", "h", "a", "t", "-", "b">>
IdC == <<"c", "h", "a", "t", "-", "c">>

\* timestamps as the stores hold them: numbers, nothing, a text that is no date
StoredTimes == {TNum(1), TNum(3), TUndef, TStr("yesterday")}

\* the same conversation ids in several stores, timestamps of every kind
InitDedup ==
    /\ query = QueryLower
    /\ type = "all"
    /\ readdirOk = TRUE
    /\ \E idG \in {IdA, IdB}, idW \in {IdA, IdB, IdC}, idV \in {IdA, IdB, IdC},
          tR \in StoredTimes, tG \in StoredTimes, tW \in StoredTimes,
          tV \in StoredTimes :
           /\ globalStore =
                  GlobalStore("ok", <<>>, <<>>,
                      <<ComposerRow(IdA, ComposerData(TitleRefactor, <<>>, tR, <<>>,
                                                      <<FileIn(1)>>))>>,
                      Document(<<Tab(idG, TitleRefactor, <<>>, tG)>>))
           /\ workspaceDirs =
                  <<Dir(DirName(1), "ok", FolderUri(1),
                        Database("ok", Document(<<Tab(idW, TitleUpper, <<>>, tW)>>),
                                 NoDocument)),
                    Dir(DirName(2), "ok", FolderUri(2),
                        Database("ok", GarbageDocument,
                                 Document(<<LegacyComposer(idV, TitleUpper, <<>>, tV)>>)))>>
    /\ now = 2
    /\ HandlerInit

StoredTitles == {TitleRefactor, TitleUpper, TitleOther, Undefined}
StoredTexts == {TextRefactor, TextUpper, TextOther}

\* one conversation per source, titles and bubble texts in either letter case
InitMatch ==
    /\ query \in {QueryLower, QueryUpper, QueryMixed}
    /\ type \in {"", "all", "chat", "composer"}
    /\ readdirOk = TRUE
    /\ \E title \in StoredTitles, text \in StoredTexts :
           /\ globalStore =
                  GlobalStore("ok", <<BubbleRow(BubbleId1, Bubble(text))>>, <<>>,
                      <<ComposerRow(IdA, ComposerData(title, <<BubbleId1>>, TNum(1), <<>>,
                                                      <<FileIn(1)>>))>>,
                      Document(<<Tab(IdB, title, <<Bubble(text)>>, TNum(2))>>))
           /\ workspaceDirs =
                  <<Dir(DirName(1), "ok", FolderUri(1),
                        Database("ok",
                                 Document(<<Tab(IdC, title, <<Bubble(text)>>, TNum(3))>>),
                                 Document(<<LegacyComposer(IdA \o IdB, title,
                                                           <<Bubble(text)>>, TNum(1))>>)))>>
    /\ now = 2
    /\ HandlerInit

\* a path outside every workspace folder
FileOutside == <<"/", "t", "m", "p", "/", "x">>

LayoutChoices ==
    {<<>>, <<ProjectName(1)>>, <<ProjectName(2)>>, <<FolderPath(1)>>,
     <<FolderPath(2), ProjectName(1)>>}
PathChoices == {<<>>, <<FileIn(1)>>, <<FileIn(2)>>, <<FileOutside, FileScheme \o FileIn(2)>>}
BubblePathChoices == {<<>>, <<FileIn(1)>>, <<FileIn(2)>>}

\* one unified conversation, the inputs of the four resolver stages varied
InitResolver ==
    /\ query = QueryLower
    /\ type = "composer"
    /\ readdirOk = TRUE
    /\ \E layouts \in LayoutChoices, created \in PathChoices, blocks \in PathChoices,
          relevant \in BubblePathChoices, selected \in BubblePathChoices :
           globalStore =
               GlobalStore("ok",
                   <<BubbleRow(BubbleId1,
                               [text |-> TextOther, richText |-> NoRichText,
                                relevantFiles |-> relevant, fileSelections |-> selected])>>,
                   <<ContextRow(IdA, layouts)>>,
                   <<ComposerRow(IdA, ComposerData(TitleRefactor, <<BubbleId1>>, TNum(1),
                                                   created, blocks))>>,
                   NoDocument)
    /\ workspaceDirs =
           <<Dir(DirName(1), "ok", FolderUri(1), Database("absent", NoDocument, NoDocument)),
             Dir(DirName(2), "ok", FolderUri(2), Database("absent", NoDocument, NoDocument))>>
    /\ now = 2
    /\ HandlerInit

\* no helper is applied on its own
HelperIdle == input = <<>> /\ output = <<>>

\* GlobalSearch as its useState calls construct it, no timer, no fetch
ComponentInit ==
    /\ open = FALSE
    /\ searchQuery = <<>>
    /\ searchResults = <<>>
    /\ isLoading = FALSE
    /\ selectedIndex = 0
    /\ filter = "all"
    /\ timer = <<>>
    /\ fetches = <<>>

MaxBubbles == 3   \* bubbles per conversation in a bubble scenario

\* a bubble without direct text whose rich document holds the query word
RichOnlyBubble ==
    [text |-> <<>>, richText |-> RichText(<<Container(<<Leaf(TextRefactor)>>)>>),
     relevantFiles |-> <<>>, fileSelections |-> <<>>]

BubbleChoices ==
    {Bubble(TextOther), Bubble(TextRefactor), Bubble(TextUpper), RichOnlyBubble}

BubbleLists == UNION {[1..n -> BubbleChoices] : n \in 0..MaxBubbles}

BubbleIdOf(i) == <<"b", Digit[i]>>

\* the same title and the same bubbles stored as a unified agent
\* conversation, a unified ask tab, a legacy ask tab and a legacy composer
InitBubbles ==
    /\ query = QueryLower
    /\ type \in {"composer", "all"}
    /\ readdirOk = TRUE
    /\ \E title \in {TitleRefactor, TitleOther, Undefined}, bubbles \in BubbleLists,
          blocks \in {<<>>, <<FileIn(1)>>} :
           /\ globalStore =
                  GlobalStore("ok",
                      [i \in DOMAIN bubbles |-> BubbleRow(BubbleIdOf(i), bubbles[i])],
                      <<>>,
                      <<ComposerRow(IdA,
                            ComposerData(title, [i \in DOMAIN bubbles |-> BubbleIdOf(i)],
                                         TNum(1), <<>>, blocks))>>,
                      Document(<<Tab(IdB, title, bubbles, TNum(2))>>))
           /\ workspaceDirs =
                  <<Dir(DirName(1), "ok", FolderUri(1),
                        Database("ok",
                                 Document(<<Tab(IdC, title, bubbles, TNum(3))>>),
                                 Document(<<LegacyComposer(IdA \o IdB, title, bubbles,
                                                           TNum(1))>>)))>>
    /\ now = 2
    /\ HandlerInit

Init ==
    /\ \/ InitFaults
       \/ InitOrchestration
       \/ InitDedup
       \/ InitMatch
       \/ InitResolver
       \/ InitBubbles
    /\ HelperIdle
    /\ ComponentInit

Spec == Init /\ [][Next]_vars

\* no request is handled
HandlerIdle ==
    /\ query = Undefined
    /\ type = ""
    /\ readdirOk = TRUE
    /\ workspaceDirs = <<>>
    /\ globalStore = GlobalStore("absent", <<>>, <<>>, <<>>, NoDocument)
    /\ now = 2
    /\ HandlerInit

-----------------------------------------------------------------------------
(* The snippet of a matching bubble, computed on its own: the unified scan  *)
(* (lines 281-298) and the legacy scan (lines 410-422) applied to one       *)
(* bubble whose text holds the query word between two paddings.             *)

Repeat(c, n) == [i \in 1..n |-> c]

PaddingBefore == {0, 1, 49, 50, 51, 200}
PaddingAfter == {0, 92, 99, 100, 101, 150}
PaddingUnits == {"x", DottedI}

SnippetInputs ==
    {[text |-> Repeat(c, before) \o word \o Repeat("y", after), q |-> q] :
        c \in PaddingUnits, before \in PaddingBefore, after \in PaddingAfter,
        word \in {QueryLower, QueryUpper}, q \in {QueryLower, QueryMixed}}

SnippetInit ==
    /\ input \in SnippetInputs
    /\ output = [done |-> FALSE, source |-> "", match |-> NoMatch]
    /\ HandlerIdle
    /\ ComponentInit

\* lines 281-298 on a conversation whose one header names the bubble
SnippetUnified ==
    /\ ~output.done
    /\ output' = [done |-> TRUE, source |-> "unified",
                  match |-> MatchHeaders(<<BubbleId1>>,
                                         [id \in {BubbleId1} |-> Bubble(input.text)],
                                         input.q, QueryLowerOf(input.q))]
    /\ UNCHANGED <<input, handlerVars, componentVars>>

\* lines 410-422 on a tab whose one bubble is the bubble
SnippetLegacy ==
    /\ ~output.done
    /\ output' = [done |-> TRUE, source |-> "legacy",
                  match |-> MatchInline(<<Bubble(input.text)>>, input.q,
                                        QueryLowerOf(input.q))]
    /\ UNCHANGED <<input, handlerVars, componentVars>>

SnippetNext == SnippetUnified \/ SnippetLegacy

SnippetSpec == SnippetInit /\ [][SnippetNext]_vars

-----------------------------------------------------------------------------
(* extractTextFromBubble applied on its own to bubble payloads of every     *)
(* shape its statements distinguish.                                        *)

\* the leaves A, B, C three containers deep
NestedABC ==
    <<Container(<<Container(<<Container(<<Leaf(<<"A">>)>>), Leaf(<<"B">>)>>),
                  Leaf(<<"C">>)>>)>>

RichTrees ==
    {<<>>,
     <<Leaf(<<"A">>), Leaf(<<"B">>), Leaf(<<"C">>)>>,
     NestedABC,
     <<Container(<<Leaf(<<"A">>), Container(<<>>), Leaf(<<>>)>>), Leaf(<<"B">>)>>,
     <<Leaf(<<"A">>), NullNode>>,
     <<Container(<<Leaf(<<"A">>), Container(<<NullNode>>)>>)>>}

RichTexts ==
    {NoRichText,
     [NoRichText EXCEPT !.present = TRUE],
     [NoRichText EXCEPT !.present = TRUE, !.parses = TRUE],
     [RichText(<<>>) EXCEPT !.iterable = FALSE]}
    \cup {RichText(children) : children \in RichTrees}

DirectTexts == {Undefined, <<>>, <<" ", " ">>, <<"h", "i">>, <<" ", "h", "i">>, NonString}

ExtractInputs ==
    {[text |-> text, richText |-> richText, relevantFiles |-> <<>>,
      fileSelections |-> <<>>] : text \in DirectTexts, richText \in RichTexts}

ExtractInit ==
    /\ input \in ExtractInputs
    /\ output = [done |-> FALSE, threw |-> FALSE, text |-> <<>>]
    /\ HandlerIdle
    /\ ComponentInit

\* one call of extractTextFromBubble
Extract ==
    /\ ~output.done
    /\ output' = IF extractTextFromBubble(input) = Threw
                 THEN [done |-> TRUE, threw |-> TRUE, text |-> <<>>]
                 ELSE [done |-> TRUE, threw |-> FALSE,
                       text |-> extractTextFromBubble(input)]
    /\ UNCHANGED <<input, handlerVars, componentVars>>

ExtractNext == Extract

ExtractSpec == ExtractInit /\ [][ExtractNext]_vars

-----------------------------------------------------------------------------
(* The component GlobalSearch (src/unnamed/part_001).  An action is one     *)
(* event handler or callback together with the effects React runs after    *)
(* the state change.  timer is <<>> or holds the query and the filter the   *)
(* pending debounce callback closed over; a fetch is [q, f, state] with     *)
(* state pending, fulfilled or rejected.                                   *)

MaxFetches == 2   \* fetches started in one behaviour

TypedQueries == {<<>>, <<" ">>, <<"a">>, <<"b">>}
Filters == {"all", "chat", "composer"}

\* data.results of the response to /api/search?q=q&type=f
ResultsFor(q, f) ==
    IF q = <<"a">>
    THEN IF f = "all" THEN <<"a1", "a2", "a3">>
         ELSE IF f = "chat" THEN <<"a1">> ELSE <<"a2", "a3">>
    ELSE IF f = "chat" THEN <<>> ELSE <<"b1">>

\* the effect on [query, filter]: the cleanup clears the timer, a blank query
\* empties the results, any other query starts the debounce timer
SearchEffect(q, f) ==
    /\ timer' = IF TrimIsEmpty(q) THEN <<>> ELSE <<[q |-> q, f |-> f]>>
    /\ searchResults' = IF TrimIsEmpty(q) THEN <<>> ELSE searchResults

\* setOpen(true): the trigger button or the shortcut
OpenDialog ==
    /\ ~open
    /\ open' = TRUE
    /\ UNCHANGED <<searchQuery, searchResults, isLoading, selectedIndex, filter,
                   timer, fetches>>
    /\ UNCHANGED <<handlerVars, helperVars>>

\* the effect on [open] when the dialog closes, and the effect on
\* [query, filter] when that changed the query
CloseEffects ==
    /\ open' = FALSE
    /\ searchQuery' = <<>>
    /\ searchResults' = <<>>
    /\ selectedIndex' = 0
    /\ timer' = IF searchQuery # <<>> THEN <<>> ELSE timer
    /\ UNCHANGED <<isLoading, filter, fetches>>

\* setOpen(false): escape, a click outside, or the shortcut
CloseDialog ==
    /\ open
    /\ CloseEffects
    /\ UNCHANGED <<handlerVars, helperVars>>

\* onChange of the input: setQuery
ChangeQuery ==
    /\ open
    /\ \E q \in TypedQueries \ {searchQuery} :
           /\ searchQuery' = q
           /\ SearchEffect(q, filter)
    /\ UNCHANGED <<open, isLoading, selectedIndex, filter, fetches>>
    /\ UNCHANGED <<handlerVars, helperVars>>

\* onClick of a filter tab: setFilter
ChangeFilter ==
    /\ open
    /\ \E f \in Filters \ {filter} :
           /\ filter' = f
           /\ SearchEffect(searchQuery, f)
    /\ UNCHANGED <<open, searchQuery, isLoading, selectedIndex, fetches>>
    /\ UNCHANGED <<handlerVars, helperVars>>

\* the debounce callback up to its await: setIsLoading(true), fetch
DebounceFires ==
    /\ timer # <<>>
    /\ Len(fetches) < MaxFetches
    /\ isLoading' = TRUE
    /\ fetches' = Append(fetches, [q |-> timer[1].q, f |-> timer[1].f,
                                    state |-> "pending"])
    /\ timer' = <<>>
    /\ UNCHANGED <<open, searchQuery, searchResults, selectedIndex, filter>>
    /\ UNCHANGED <<handlerVars, helperVars>>

\* the callback after its await: setResults, setSelectedIndex(0), finally
ResponseArrives ==
    /\ \E i \in DOMAIN fetches :
           /\ fetches[i].state = "pending"
           /\ fetches' = [fetches EXCEPT ![i].state = "fulfilled"]
           /\ searchResults' = ResultsFor(fetches[i].q, fetches[i].f)
    /\ selectedIndex' = 0
    /\ isLoading' = FALSE
    /\ UNCHANGED <<open, searchQuery, filter, timer>>
    /\ UNCHANGED <<handlerVars, helperVars>>

\* fetch or response.json() rejects: catch, finally
ResponseFails ==
    /\ \E i \in DOMAIN fetches :
           /\ fetches[i].state = "pending"
           /\ fetches' = [fetches EXCEPT ![i].state = "rejected"]
    /\ isLoading' = FALSE
    /\ UNCHANGED <<open, searchQuery, searchResults, selectedIndex, filter, timer>>
    /\ UNCHANGED <<handlerVars, helperVars>>

\* handleKeyDown, ArrowDown: setSelectedIndex(i => Math.min(i + 1, results.length - 1))
ArrowDown ==
    /\ open
    /\ selectedIndex' = Min(selectedIndex + 1, Len(searchResults) - 1)
    /\ UNCHANGED <<open, searchQuery, searchResults, isLoading, filter, timer,
                   fetches>>
    /\ UNCHANGED <<handlerVars, helperVars>>

\* handleKeyDown, ArrowUp: setSelectedIndex(i => Math.max(i - 1, 0))
ArrowUp ==
    /\ open
    /\ selectedIndex' = Max(selectedIndex - 1, 0)
    /\ UNCHANGED <<open, searchQuery, searchResults, isLoading, filter, timer,
                   fetches>>
    /\ UNCHANGED <<handlerVars, helperVars>>

\* onMouseEnter of the result at index: setSelectedIndex(index)
MouseEnter ==
    /\ open
    /\ \E index \in 0..(Len(searchResults) - 1) : selectedIndex' = index
    /\ UNCHANGED <<open, searchQuery, searchResults, isLoading, filter, timer,
                   fetches>>
    /\ UNCHANGED <<handlerVars, helperVars>>

\* handleKeyDown, Enter on results[selectedIndex]: navigateToResult closes
EnterKey ==
    /\ open
    /\ selectedIndex \in 0..(Len(searchResults) - 1)
    /\ CloseEffects
    /\ UNCHANGED <<handlerVars, helperVars>>

GlobalSearchInit ==
    /\ ComponentInit
    /\ HandlerIdle
    /\ HelperIdle

GlobalSearchNext ==
    \/ OpenDialog
    \/ CloseDialog
    \/ ChangeQuery
    \/ ChangeFilter
    \/ DebounceFires
    \/ ResponseArrives
    \/ ResponseFails
    \/ ArrowDown
    \/ ArrowUp
    \/ MouseEnter
    \/ EnterKey

GlobalSearchSpec == GlobalSearchInit /\ [][GlobalSearchNext]_vars

-----------------------------------------------------------------------------
(* Properties *)

Done == pc = "done"
Succeeded == pc = "done" /\ response.status = 200

ChatIdsOf(rs) == {rs[i].chatId : i \in DOMAIN rs}

\* C1: in every successful response no two entries of the result list have
\* the same chatId, whatever the stores hold
C1_UniqueChatIds ==
    Succeeded =>
        \A i, j \in DOMAIN response.results :
            i # j => response.results[i].chatId # response.results[j].chatId

\* a success response for a conversation that the unified store and a legacy
\* store both yielded
C1_Witness ==
    /\ Succeeded
    /\ \E i, j \in DOMAIN results :
           /\ results[i].chatId = results[j].chatId
           /\ results[i].type = "composer" /\ results[i].workspaceFolder = FolderUri(1)
           /\ i = 1 /\ j > 1
           /\ results[j].workspaceId = DirName(2)
    /\ Len(response.results) < Len(results)

\* the instants of two entries are both defined and the later one comes first
InOrder(a, b) ==
    LET timeA == ResolveTime(a.timestamp)
        timeB == ResolveTime(b.timestamp)
    IN  (~timeA.nan /\ ~timeB.nan) => timeA.v >= timeB.v

\* C2: in every successful response the results are sorted non-increasing by
\* resolved timestamp, for any mix of numeric and string timestamps
C2_SortedByTime ==
    Succeeded =>
        \A i, j \in DOMAIN response.results :
            i < j => InOrder(response.results[i], response.results[j])

\* C3: a request whose query is missing or empty is answered 400 with the
\* fixed message, and no directory is scanned and no store handle is opened
C3_MissingQuery ==
    (query = Undefined \/ query = <<>>) =>
        /\ ~dirScanned
        /\ opened = <<>>
        /\ globalDb = "null" /\ openDbs = {}
        /\ pc \in {"start", "done"}
        /\ Done => /\ response.status = 400
                   /\ response.error = "No search query provided"

\* an empty query answered while every store exists and could be opened
C3_Witness ==
    /\ Done
    /\ query = <<>>
    /\ response.status = 400
    /\ globalStore.health = "ok"
    /\ \A i \in DOMAIN workspaceDirs : workspaceDirs[i].db.health = "ok"

\* the store handles that are open
OpenHandles == (IF globalDb = "open" THEN {GlobalName} ELSE {}) \cup openDbs

\* C4: every store handle opened during a request is closed before the next
\* store is opened and before the response is returned, also when the scan of
\* the store fails after the handle was opened; at most one handle is open at
\* any time and none when the request ends
C4_HandlesReleased ==
    /\ Cardinality(OpenHandles) <= 1
    /\ pc \in {"legacy", "done"} => OpenHandles = {}

\* the request found this conversation in the store called owner
Emitted(owner, kind, chatId) ==
    \E k \in DOMAIN results :
        /\ results[k].workspaceId = owner
        /\ results[k].type = kind
        /\ results[k].chatId = chatId

\* the unified store's conversation rows were read
RowsScanned == [store |-> GlobalName, kind |-> "composer"] \in searched

\* what a well-formed row of the unified store pushes in this request
RowResultHere(row) ==
    ComposerRowResult(row, BuildBubbleMap(globalStore.bubbleRows),
                      BuildProjectLayoutsMap(globalStore.contextRows),
                      projectNameToWorkspaceId, workspaceEntries, query, now)

\* every well-formed matching row beside one malformed row is emitted
RowsIsolated ==
    LET rows == globalStore.composerRows
    IN  (RowsScanned /\ Cardinality({i \in DOMAIN rows : ~rows[i].parses}) = 1) =>
            \A i \in DOMAIN rows :
                RowResultHere(rows[i]) # <<>> =>
                    \E k \in DOMAIN results : results[k] = RowResultHere(rows[i])[1]

\* every well-formed matching tab beside one malformed tab is emitted
TabsIsolated(owner, doc) ==
    ([store |-> owner, kind |-> "chat"] \in searched
     /\ doc.present /\ doc.parses
     /\ Cardinality({i \in DOMAIN doc.items : TabThrows(doc.items[i])}) = 1) =>
        \A i \in DOMAIN doc.items :
            (~TabThrows(doc.items[i])
             /\ TabResult(doc.items[i], owner, Undefined, query, now) # <<>>) =>
                Emitted(owner, "chat", doc.items[i].tabId)

\* every well-formed matching composer beside one malformed one is emitted
ComposersIsolated(owner, doc) ==
    ([store |-> owner, kind |-> "composer"] \in searched
     /\ doc.present /\ doc.parses
     /\ Cardinality({i \in DOMAIN doc.items :
                        LegacyComposerThrows(doc.items[i], query)}) = 1) =>
        \A i \in DOMAIN doc.items :
            (~LegacyComposerThrows(doc.items[i], query)
             /\ LegacyComposerResult(doc.items[i], owner, Undefined, query, now) # <<>>) =>
                Emitted(owner, "composer", doc.items[i].composerId)

\* C5: in any store, if one record of a list is malformed and the others are
\* well-formed and match the query, every well-formed record is emitted and only
\* the malformed one is skipped, wherever the malformed record stands
C5_FaultIsolation ==
    /\ RowsIsolated
    /\ \A i \in DOMAIN workspaceDirs :
           /\ TabsIsolated(workspaceDirs[i].name, workspaceDirs[i].db.chat)
           /\ ComposersIsolated(workspaceDirs[i].name, workspaceDirs[i].db.composer)

\* the stores that can be opened, in the order the request reaches them
RECURSIVE OpenableStores(_, _)
OpenableStores(entries, dirs) ==
    IF entries = <<>> THEN <<>>
    ELSE (IF DbOf(dirs, Head(entries).name).health \in {"absent", "openfail"}
          THEN <<>> ELSE <<Head(entries).name>>)
         \o OpenableStores(Tail(entries), dirs)

ExpectedOpens ==
    (IF globalStore.health \in {"absent", "openfail"} THEN <<>> ELSE <<GlobalName>>)
    \o OpenableStores(BuildWorkspaceEntries(workspaceDirs), workspaceDirs)

\* every entry of found is accumulated and its conversation is answered
Contributed(found) ==
    \A k \in DOMAIN found :
        /\ \E m \in DOMAIN results : results[m] = found[k]
        /\ found[k].chatId \in ChatIdsOf(response.results)

\* the workspace root was listed and its descriptors were indexed
WorkspacesListed ==
    readdirOk /\ ~FolderIndexThrows(BuildWorkspaceEntries(workspaceDirs))

\* C6: when a store cannot be opened or queried the request still succeeds:
\* every other store is scanned, in order, and its matching conversations are
\* in the results
C6_StoreFailureIsolated ==
    (Done /\ query # Undefined /\ query # <<>> /\ WorkspacesListed) =>
        /\ response.status = 200
        /\ opened = ExpectedOpens
        /\ globalStore.health = "ok" =>
               Contributed(GlobalContribution(globalStore, TypeOf(type),
                                              projectNameToWorkspaceId,
                                              workspaceEntries, query, now))
        /\ \A i \in DOMAIN workspaceEntries :
               DbOf(workspaceDirs, workspaceEntries[i].name).health = "ok" =>
                   Contributed(LegacyContribution(
                                   DbOf(workspaceDirs, workspaceEntries[i].name),
                                   workspaceEntries[i], TypeOf(type), query, now))

\* the unified store and the first legacy store fail, the second legacy store
\* is scanned and its conversations are answered
C6_Witness ==
    /\ Succeeded
    /\ globalStore.health = "kvfail"
    /\ Len(workspaceDirs) >= 2
    /\ workspaceDirs[1].db.health = "queryfail"
    /\ workspaceDirs[2].db.health = "ok"
    /\ opened = <<GlobalName, DirName(1), DirName(2)>>
    /\ \E k \in DOMAIN response.results :
           response.results[k].workspaceId = DirName(2)

\* C7: an unhandled failure during orchestration is answered 500 with an empty
\* result sequence and an error message, and no store handle is left open
C7_UnhandledFailure ==
    Done =>
        /\ (query # Undefined /\ query # <<>> /\ ~WorkspacesListed) => response.status = 500
        /\ response.status = 500 =>
               /\ response.results = <<>>
               /\ "results" \in response.body
               /\ response.error = "Search failed"
               /\ OpenHandles = {}

\* the workspace root could not be listed
C7_Witness ==
    /\ Done
    /\ ~readdirOk
    /\ dirScanned
    /\ response.status = 500
    /\ response.results = <<>>

\* C8: with the type of the ask conversations every result is an ask
\* conversation and no agent source is read; with the type of the agent
\* conversations every result is an agent conversation and no ask source is
\* read; with type all, or no type, both kinds of source are read
C8_ScopeRestriction ==
    /\ TypeOf(type) \in {"chat", "ask"} =>
           /\ \A k \in DOMAIN results : results[k].type = "chat"
           /\ \A k \in DOMAIN response.results : response.results[k].type = "chat"
           /\ \A src \in searched : src.kind = "chat"
    /\ TypeOf(type) \in {"composer", "agent"} =>
           /\ \A k \in DOMAIN results : results[k].type = "composer"
           /\ \A k \in DOMAIN response.results : response.results[k].type = "composer"
           /\ \A src \in searched : src.kind = "composer"
    /\ (type \in {"", "all"} /\ Succeeded) =>
           /\ globalStore.health = "ok" =>
                  {[store |-> GlobalName, kind |-> k] : k \in {"chat", "composer"}}
                      \subseteq searched
           /\ \A i \in DOMAIN workspaceEntries :
                  DbOf(workspaceDirs, workspaceEntries[i].name).health = "ok" =>
                      {[store |-> workspaceEntries[i].name, kind |-> k] :
                          k \in {"chat", "composer"}} \subseteq searched

\* an ask-only request that found conversations although the unified store
\* holds a matching agent conversation
C8_Witness ==
    /\ Succeeded
    /\ type = "chat"
    /\ response.results # <<>>
    /\ globalStore.health = "ok"
    /\ \E i \in DOMAIN globalStore.composerRows :
           RowResultHere(globalStore.composerRows[i]) # <<>>

\* the four stages of the resolver for a row of the unified store
LayoutsOf(row) ==
    IF row.composerId \in DOMAIN BuildProjectLayoutsMap(globalStore.contextRows)
    THEN BuildProjectLayoutsMap(globalStore.contextRows)[row.composerId]
    ELSE <<>>
Stage1(row) == ProjectFromLayouts(LayoutsOf(row), projectNameToWorkspaceId)
Stage2(row) == ProjectFromNewFiles(row.data.newlyCreatedFiles, workspaceEntries)
Stage3(row) == ProjectFromCodeBlocks(row.data.codeBlockData, workspaceEntries)
Stage4(row) == ProjectFromBubbles(row.data.fullConversationHeadersOnly,
                                  BuildBubbleMap(globalStore.bubbleRows),
                                  workspaceEntries)

\* the title of the row holds the query
TitleMatches(row) ==
    /\ row.parses
    /\ IsString(row.data.name)
    /\ Includes(ToLowerCase(row.data.name), ToLowerCase(query))

\* the conversation of the row is found, owned by workspace w
RowEmittedFor(row, w) ==
    \E k \in DOMAIN results :
        /\ results[k].chatId = row.composerId
        /\ results[k].type = "composer"
        /\ results[k].chatTitle = row.data.name
        /\ results[k].workspaceId = w
        /\ results[k].workspaceFolder = FolderOf(workspaceEntries, w)

\* C9: the resolver tries project layouts, newly created files, code-block
\* file paths and bubble file references in this order and returns the
\* workspace of the first stage that succeeds
C9_ResolverPrecedence ==
    RowsScanned =>
        \A i \in DOMAIN globalStore.composerRows :
            LET row == globalStore.composerRows[i]
            IN  TitleMatches(row) =>
                    /\ Stage1(row) # NoProject => RowEmittedFor(row, Stage1(row))
                    /\ (Stage1(row) = NoProject /\ Stage2(row) # NoProject) =>
                           RowEmittedFor(row, Stage2(row))
                    /\ (Stage1(row) = NoProject /\ Stage2(row) = NoProject
                        /\ Stage3(row) # NoProject) =>
                           RowEmittedFor(row, Stage3(row))
                    /\ (Stage1(row) = NoProject /\ Stage2(row) = NoProject
                        /\ Stage3(row) = NoProject /\ Stage4(row) # NoProject) =>
                           RowEmittedFor(row, Stage4(row))

\* a project layout that leads to the first workspace and file paths that lead
\* to the second one: the conversation is found in the first
C9_Witness ==
    /\ RowsScanned
    /\ \E i \in DOMAIN globalStore.composerRows :
           LET row == globalStore.composerRows[i]
           IN  /\ TitleMatches(row)
               /\ Stage1(row) = DirName(1)
               /\ Stage2(row) = DirName(2)
               /\ Stage3(row) = DirName(2)
               /\ Stage4(row) = DirName(2)
               /\ RowEmittedFor(row, DirName(1))

\* the queries that differ from q in letter case only
CaseVariants(q) ==
    {v \in {QueryLower, QueryUpper, QueryMixed} : ToLowerCase(v) = ToLowerCase(q)}

\* the first tab of the document is titled "Refactor Auth Module"
FirstTabIsRefactor(doc) ==
    doc.present /\ doc.parses /\ doc.items # <<>>
    /\ doc.items[1].chatTitle = TitleRefactor

\* C10: two queries that differ only in letter case find the same
\* conversations; the title "Refactor Auth Module" matches "refactor" and
\* "REFACTOR"
C10_CaseInsensitive ==
    Succeeded =>
        /\ \A v \in CaseVariants(query) :
               ChatIdsOf(response.results)
                   = ChatIdsOf(RequestResults(v, TypeOf(type), workspaceDirs,
                                              globalStore, now))
        /\ (query \in {QueryLower, QueryUpper}
            /\ [store |-> GlobalName, kind |-> "chat"] \in searched
            /\ FirstTabIsRefactor(globalStore.chat)) =>
               globalStore.chat.items[1].tabId \in ChatIdsOf(response.results)

\* the query "REFACTOR" finds the tab titled "Refactor Auth Module"
C10_Witness ==
    /\ Succeeded
    /\ query = QueryUpper
    /\ [store |-> GlobalName, kind |-> "chat"] \in searched
    /\ FirstTabIsRefactor(globalStore.chat)
    /\ \E k \in DOMAIN response.results :
           /\ response.results[k].chatId = globalStore.chat.items[1].tabId
           /\ response.results[k].matchingText = TitleRefactor

\* C11: when a bubble text T matches with the first occurrence of the
\* lower-cased query at offset m, the snippet is T from max(0, m - 50) to
\* min(|T|, m + |query| + 100), with an ellipsis in front exactly when the
\* slice does not start at 0 and one behind exactly when it does not reach
\* the end of T, and the snippet contains the matched occurrence
C11_SnippetWindow ==
    output.done =>
        LET T == input.text
            lowered == ToLowerCase(input.q)
            m == IndexOf(ToLowerCase(T), lowered)
            from == Max(0, m - 50)
            to == Min(Len(T), m + Len(input.q) + 100)
        IN  m >= 0 =>
                /\ output.match.hasMatch
                /\ output.match.matchingText =
                       (IF from # 0 THEN Ellipsis ELSE <<>>)
                       \o SubSeq(T, from + 1, to)
                       \o (IF to # Len(T) THEN Ellipsis ELSE <<>>)
                /\ Includes(ToLowerCase(output.match.matchingText), lowered)

\* the texts of the leaves of a rich document in document order
RECURSIVE LeafTexts(_)
LeafTexts(nodes) ==
    IF nodes = <<>> THEN <<>>
    ELSE (IF Head(nodes).type = "text" /\ Head(nodes).text \notin {Undefined, <<>>}
          THEN Head(nodes).text
          ELSE LeafTexts(Head(nodes).children))
         \o LeafTexts(Tail(nodes))

\* every node of the document is a leaf or a container
RECURSIVE WellShaped(_)
WellShaped(nodes) ==
    \A i \in DOMAIN nodes : ~nodes[i].isNull /\ WellShaped(nodes[i].children)

\* the rich document of the bubble parses into a tree of leaves and containers
RichDocumentReadable(bubble) ==
    /\ bubble.richText.present /\ bubble.richText.parses
    /\ bubble.richText.hasRoot /\ bubble.richText.iterable
    /\ WellShaped(bubble.richText.children)

\* C12: extractTextFromBubble returns a text for every bubble payload and
\* never throws; a non-empty direct text is returned as is; otherwise, when
\* the rich document parses, the result is the concatenation of its leaf
\* texts in document order; on a parse failure or an unexpected shape the
\* result is the empty string
C12_ExtractText ==
    output.done =>
        /\ ~output.threw
        /\ input.text \notin {Undefined, <<>>} => output.text = input.text
        /\ (input.text \in {Undefined, <<>>} /\ RichDocumentReadable(input)) =>
               output.text = LeafTexts(input.richText.children)
        /\ (input.text \in {Undefined, <<>>} /\ ~RichDocumentReadable(input)) =>
               output.text = <<>>

\* the workspace entries whose folder URI ends in the path segment that ends P
EntriesNamedLike(P) ==
    {i \in DOMAIN workspaceEntries :
        /\ IsString(workspaceEntries[i].folder)
        /\ workspaceEntries[i].folder # <<>>
        /\ SplitPop(workspaceEntries[i].folder, "/") = SplitPop(P, "/")}

\* C13: stage 1 of the resolver resolves by final path segment: when the
\* final segment of a conversation's layout root path equals the final
\* segment of a scanned workspace's folder URI, stage 1 returns that
\* workspace's id
C13_StageOneByFinalSegment ==
    RowsScanned =>
        \A i \in DOMAIN globalStore.composerRows :
            LET row == globalStore.composerRows[i]
            IN  (row.parses /\ LayoutsOf(row) # <<>>
                 /\ EntriesNamedLike(LayoutsOf(row)[1]) # {}) =>
                    \E e \in EntriesNamedLike(LayoutsOf(row)[1]) :
                        Stage1(row) = workspaceEntries[e].name

\* what the resolver returns for the conversation of a row in this request
ResolvedProject(row) ==
    determineProjectForConversation(row.data, row.composerId,
                                    BuildProjectLayoutsMap(globalStore.contextRows),
                                    projectNameToWorkspaceId, workspaceEntries,
                                    BuildBubbleMap(globalStore.bubbleRows))

\* all four stages fail for the conversation of the row
Unresolved(row) ==
    /\ Stage1(row) = NoProject /\ Stage2(row) = NoProject
    /\ Stage3(row) = NoProject /\ Stage4(row) = NoProject

\* a conversation of this id is stored as an ask tab or in a legacy store
HeldElsewhere(chatId) ==
    \/ \E k \in DOMAIN globalStore.chat.items : globalStore.chat.items[k].tabId = chatId
    \/ \E d \in DOMAIN workspaceDirs :
           \/ \E k \in DOMAIN workspaceDirs[d].db.chat.items :
                  workspaceDirs[d].db.chat.items[k].tabId = chatId
           \/ \E k \in DOMAIN workspaceDirs[d].db.composer.items :
                  workspaceDirs[d].db.composer.items[k].composerId = chatId

\* the unified store was scanned and no legacy store yet
UnifiedScanned == RowsScanned /\ pc = "legacy" /\ entryIdx = 1

\* C14: a unified-store agent conversation for which all four resolver
\* stages fail never appears in the results, also when its title or a bubble
\* matches; every result emitted from the unified store's conversation rows
\* carries the id the resolver returned and the folder of that workspace
C14_UnresolvedExcluded ==
    /\ \A i \in DOMAIN globalStore.composerRows :
           LET row == globalStore.composerRows[i]
           IN  (row.parses /\ Unresolved(row) /\ ~HeldElsewhere(row.composerId)) =>
                   /\ \A k \in DOMAIN results : results[k].chatId # row.composerId
                   /\ \A k \in DOMAIN response.results :
                          response.results[k].chatId # row.composerId
    /\ UnifiedScanned =>
           \A k \in DOMAIN results :
               results[k].type = "composer" =>
                   \E i \in DOMAIN globalStore.composerRows :
                       LET row == globalStore.composerRows[i]
                       IN  /\ row.parses
                           /\ results[k].chatId = row.composerId
                           /\ ResolvedProject(row) # NoProject
                           /\ results[k].workspaceId = ResolvedProject(row)
                           /\ results[k].workspaceFolder =
                                  FolderOf(workspaceEntries, ResolvedProject(row))

\* a request answered after a conversation whose title matches was scanned
\* and no stage resolved it
C14_Witness ==
    /\ Succeeded
    /\ RowsScanned
    /\ \E i \in DOMAIN globalStore.composerRows :
           /\ TitleMatches(globalStore.composerRows[i])
           /\ Unresolved(globalStore.composerRows[i])
    /\ response.results = <<>>

\* what a source pushes when the request queried it, nothing otherwise
UnifiedAgentPart ==
    IF [store |-> GlobalName, kind |-> "composer"] \in searched
    THEN ScanComposerRows(globalStore.composerRows,
                          BuildBubbleMap(globalStore.bubbleRows),
                          BuildProjectLayoutsMap(globalStore.contextRows),
                          projectNameToWorkspaceId, workspaceEntries, query, now)
    ELSE <<>>

UnifiedAskPart ==
    IF [store |-> GlobalName, kind |-> "chat"] \in searched
    THEN ScanChatDocument(globalStore.chat, GlobalName, Undefined, query, now)
    ELSE <<>>

LegacyPart(entry) ==
    (IF [store |-> entry.name, kind |-> "chat"] \in searched
     THEN ScanChatDocument(DbOf(workspaceDirs, entry.name).chat, entry.name,
                           entry.folder, query, now)
     ELSE <<>>)
    \o (IF [store |-> entry.name, kind |-> "composer"] \in searched
        THEN ScanComposerDocument(DbOf(workspaceDirs, entry.name).composer,
                                  entry.name, entry.folder, query, now)
        ELSE <<>>)

RECURSIVE LegacyParts(_)
LegacyParts(entries) ==
    IF entries = <<>> THEN <<>>
    ELSE LegacyPart(Head(entries)) \o LegacyParts(Tail(entries))

\* the matches in scan order: unified agent conversations, unified ask
\* conversations, the legacy stores in workspace-enumeration order
ScanOrder == UnifiedAgentPart \o UnifiedAskPart \o LegacyParts(workspaceEntries)

\* the first entry of rs with this chatId
FirstOccurrence(rs, chatId) ==
    rs[CHOOSE i \in DOMAIN rs :
          rs[i].chatId = chatId /\ \A j \in 1..(i - 1) : rs[j].chatId # chatId]

\* C15: when the same chatId is matched in several sources, the entry that
\* survives deduplication is the first in the scan order unified agent
\* conversations, unified ask conversations, legacy stores in enumeration
\* order, with the workspaceId, title, timestamp and snippet of that entry
C15_FirstOccurrenceSurvives ==
    Succeeded =>
        LET inOrder == ScanOrder
        IN  /\ results = inOrder
            /\ ChatIdsOf(response.results) = ChatIdsOf(inOrder)
            /\ \A k \in DOMAIN response.results :
                   response.results[k] =
                       FirstOccurrence(inOrder, response.results[k].chatId)

\* the same conversation id matched as a unified agent conversation, as a
\* unified ask conversation and in a legacy store, each with its own
\* timestamp, and the agent entry is the one returned
C15_Witness ==
    /\ Succeeded
    /\ Len(results) >= 3
    /\ results[1].chatId = IdA /\ results[1].type = "composer"
    /\ results[2].chatId = IdA /\ results[2].workspaceId = GlobalName
    /\ results[3].chatId = IdA /\ results[3].workspaceId = DirName(1)
    /\ results[3].type = "chat"
    /\ results[1].timestamp # results[2].timestamp
    /\ results[1].timestamp # results[3].timestamp
    /\ results[1].chatTitle # results[3].chatTitle
    /\ \E k \in DOMAIN response.results : response.results[k] = results[1]
    /\ \A k \in DOMAIN response.results :
           response.results[k].chatId = IdA => response.results[k] = results[1]

\* the texts of a unified conversation's bubbles as its scan reads them
RECURSIVE UnifiedTexts(_, _)
UnifiedTexts(headers, bubbleMap) ==
    IF headers = <<>> THEN <<>>
    ELSE (IF Head(headers) \in DOMAIN bubbleMap
          THEN <<extractTextFromBubble(bubbleMap[Head(headers)])>> ELSE <<>>)
         \o UnifiedTexts(Tail(headers), bubbleMap)

\* the texts of inline bubbles as the legacy scans read them
InlineTexts(bubbles) ==
    [i \in DOMAIN bubbles |->
        IF IsString(bubbles[i].text) THEN bubbles[i].text ELSE <<>>]

\* the conversations the stores hold: where, id, title, bubble texts
StoredConversations ==
    {[at |-> <<GlobalName, "composer", i>>,
      chatId |-> globalStore.composerRows[i].composerId,
      title |-> globalStore.composerRows[i].data.name,
      texts |-> UnifiedTexts(globalStore.composerRows[i].data.fullConversationHeadersOnly,
                             BuildBubbleMap(globalStore.bubbleRows))] :
        i \in {j \in DOMAIN globalStore.composerRows : globalStore.composerRows[j].parses}}
    \cup
    {[at |-> <<GlobalName, "chat", i>>,
      chatId |-> globalStore.chat.items[i].tabId,
      title |-> globalStore.chat.items[i].chatTitle,
      texts |-> InlineTexts(globalStore.chat.items[i].bubbles)] :
        i \in {j \in DOMAIN globalStore.chat.items : ~globalStore.chat.items[j].isNull}}
    \cup UNION
    {{[at |-> <<workspaceDirs[d].name, "chat", i>>,
       chatId |-> workspaceDirs[d].db.chat.items[i].tabId,
       title |-> workspaceDirs[d].db.chat.items[i].chatTitle,
       texts |-> InlineTexts(workspaceDirs[d].db.chat.items[i].bubbles)] :
         i \in {j \in DOMAIN workspaceDirs[d].db.chat.items :
                   ~workspaceDirs[d].db.chat.items[j].isNull}}
     \cup
     {[at |-> <<workspaceDirs[d].name, "composer", i>>,
       chatId |-> workspaceDirs[d].db.composer.items[i].composerId,
       title |-> workspaceDirs[d].db.composer.items[i].text,
       texts |-> InlineTexts(workspaceDirs[d].db.composer.items[i].conversation)] :
         i \in {j \in DOMAIN workspaceDirs[d].db.composer.items :
                   ~workspaceDirs[d].db.composer.items[j].isNull}} :
        d \in DOMAIN workspaceDirs}

\* the text holds the query, whatever the letter case
HoldsQuery(text) == IsString(text) /\ Includes(ToLowerCase(text), ToLowerCase(query))

\* the one snippet of a conversation: its title when the title holds the
\* query, otherwise the window of the first bubble that holds it
SnippetOf(c) ==
    IF HoldsQuery(c.title) THEN c.title
    ELSE LET first == CHOOSE i \in DOMAIN c.texts :
                          /\ HoldsQuery(c.texts[i])
                          /\ \A j \in 1..(i - 1) : ~HoldsQuery(c.texts[j])
         IN  Snippet(c.texts[first], query, ToLowerCase(query))

\* every entry of rs that stems from one stored conversation only is the
\* only entry of that conversation and carries its one snippet
OneSnippetEach(rs) ==
    \A k \in DOMAIN rs :
        LET from == {c \in StoredConversations : c.chatId = rs[k].chatId}
        IN  Cardinality(from) = 1 =>
                LET c == CHOOSE c \in from : TRUE
                IN  /\ \A j \in DOMAIN rs : rs[j].chatId = rs[k].chatId => j = k
                    /\ HoldsQuery(c.title)
                       \/ \E i \in DOMAIN c.texts : HoldsQuery(c.texts[i])
                    /\ rs[k].matchingText = SnippetOf(c)

\* the unified store holds one agent conversation, titled with the query
\* word, none of its bubbles holds the query, no legacy store holds an agent
\* conversation, the request is for agent conversations
OneTitledAgentConversation ==
    /\ Succeeded
    /\ type = "composer"
    /\ query = QueryLower
    /\ RowsScanned
    /\ Len(globalStore.composerRows) = 1
    /\ globalStore.composerRows[1].parses
    /\ globalStore.composerRows[1].data.name = TitleRefactor
    /\ \A c \in StoredConversations :
           c.at = <<GlobalName, "composer", 1>> =>
               \A i \in DOMAIN c.texts : ~HoldsQuery(c.texts[i])
    /\ \A d \in DOMAIN workspaceDirs : workspaceDirs[d].db.composer.items = <<>>

OneResultWithTitle ==
    /\ Len(response.results) = 1
    /\ response.results[1].chatId = globalStore.composerRows[1].composerId
    /\ response.results[1].matchingText = TitleRefactor

\* C16 as stated: every matched conversation has exactly one snippet, the
\* full title when the title holds the query and no bubble is consulted,
\* otherwise the window of the first bubble in conversation order that
\* holds it; a unified agent conversation titled 'Refactor auth module'
\* with no matching bubble, query 'refactor', scope agent, gives exactly one
\* result with that title as matchingText
C16_OneSnippet ==
    /\ OneSnippetEach(results)
    /\ OneSnippetEach(response.results)
    /\ OneTitledAgentConversation => OneResultWithTitle

\* C16 amended: the same, the example for a conversation that the resolver
\* assigns to a workspace
C16_OneSnippetWhenResolved ==
    /\ OneSnippetEach(results)
    /\ OneSnippetEach(response.results)
    /\ (OneTitledAgentConversation
        /\ ResolvedProject(globalStore.composerRows[1]) # NoProject) =>
           OneResultWithTitle

\* the example conversation, resolved, answered with its title
C16_Witness ==
    /\ OneTitledAgentConversation
    /\ ResolvedProject(globalStore.composerRows[1]) # NoProject
    /\ OneResultWithTitle

\* a bubble of the list has no direct text and a rich document that holds
\* the query
RichDocumentMatches(bubbles) ==
    \E i \in DOMAIN bubbles :
        /\ bubbles[i].text \in {Undefined, <<>>}
        /\ HoldsQuery(extractTextFromBubble(bubbles[i]))

\* the bubbles of a unified conversation, in conversation order
RECURSIVE BubblesOf(_, _)
BubblesOf(headers, bubbleMap) ==
    IF headers = <<>> THEN <<>>
    ELSE (IF Head(headers) \in DOMAIN bubbleMap
          THEN <<bubbleMap[Head(headers)]>> ELSE <<>>)
         \o BubblesOf(Tail(headers), bubbleMap)

Returned(chatId) ==
    \E k \in DOMAIN response.results : response.results[k].chatId = chatId

\* the request read this source and every record of the list is well formed
ListRead(store, kind, items) ==
    /\ [store |-> store, kind |-> kind] \in searched
    /\ \A j \in DOMAIN items : ~items[j].isNull

\* the unified agent conversations are matched on their extracted text
UnifiedMatchedOnExtractedText ==
    (Succeeded /\ RowsScanned) =>
        \A i \in DOMAIN globalStore.composerRows :
            LET row == globalStore.composerRows[i]
            IN  (/\ row.parses
                 /\ ResolvedProject(row) # NoProject
                 /\ RichDocumentMatches(
                        BubblesOf(row.data.fullConversationHeadersOnly,
                                  BuildBubbleMap(globalStore.bubbleRows)))) =>
                    Returned(row.composerId)

\* the conversations with inline bubbles are matched on their extracted text
InlineMatchedOnExtractedText ==
    Succeeded =>
        /\ ListRead(GlobalName, "chat", globalStore.chat.items) =>
               \A i \in DOMAIN globalStore.chat.items :
                   RichDocumentMatches(globalStore.chat.items[i].bubbles) =>
                       Returned(globalStore.chat.items[i].tabId)
        /\ \A d \in DOMAIN workspaceDirs :
               LET db == workspaceDirs[d].db
               IN  /\ ListRead(workspaceDirs[d].name, "chat", db.chat.items) =>
                          \A i \in DOMAIN db.chat.items :
                              RichDocumentMatches(db.chat.items[i].bubbles) =>
                                  Returned(db.chat.items[i].tabId)
                   /\ ListRead(workspaceDirs[d].name, "composer", db.composer.items) =>
                          \A i \in DOMAIN db.composer.items :
                              RichDocumentMatches(db.composer.items[i].conversation) =>
                                  Returned(db.composer.items[i].composerId)

\* C17: through whichever store a conversation is read (unified store,
\* unified-level ask data, legacy ask tabs, legacy composer conversations), a
\* bubble whose direct text is empty and whose rich document holds the query
\* makes the conversation match
C17_ExtractedTextEverywhere ==
    UnifiedMatchedOnExtractedText /\ InlineMatchedOnExtractedText

\* no timer is pending and no fetch is unanswered
NothingInFlight ==
    timer = <<>> /\ \A i \in DOMAIN fetches : fetches[i].state # "pending"

\* the fetch started last was for the query and filter now shown, and its
\* response arrived
LatestAnswered ==
    /\ fetches # <<>>
    /\ fetches[Len(fetches)].q = searchQuery
    /\ fetches[Len(fetches)].f = filter
    /\ fetches[Len(fetches)].state = "fulfilled"

\* C18: once no request is in flight the displayed results are those of the
\* response to the latest (query, filter) pair, a response to an older query
\* never overwrites the results of a newer one, and after the dialog is
\* closed the result list stays empty
C18_LatestResultsShown ==
    /\ (NothingInFlight /\ LatestAnswered) =>
           searchResults = ResultsFor(searchQuery, filter)
    /\ ~open => searchResults = <<>>

\* C19: selectedIndex is never negative, and whenever the result list is
\* non-empty it is a valid index into it
C19_SelectedIndexValid ==
    /\ selectedIndex >= 0
    /\ searchResults # <<>> => selectedIndex < Len(searchResults)

====
